---- MODULE Spec2Model ----
(***************************************************************************)
(* Model of the blockchainz ledger core: the Blockchain header list, the   *)
(* BlockValidator, Block/Transaction signing and verification, and the     *)
(* hashing they rest on.                                                   *)
(*                                                                         *)
(* Byte strings are pairs [head, tail]: head is what occupies the leftmost *)
(* 32 bytes, tail is everything after them.  ECDSA over P-256 signs the    *)
(* leftmost 32 bytes (the byte length of the curve order) of the message   *)
(* it is handed, and the code hands it the raw message, not a digest of    *)
(* it.  SHA-256 hashes the whole string and is taken to be collision free. *)
(*                                                                         *)
(* Every critical section of the Blockchain lock holds one access to the   *)
(* header list, so a goroutine's AddBlock is a sequence of atomic steps,   *)
(* one per critical section; the goroutine-local work that follows a       *)
(* critical section is part of the same step.                              *)
(***************************************************************************)
EXTENDS Bags, Integers, Sequences, FiniteSets, TLC

\* ------------------------------------------------------------------ bounds
\* New AddBlock calls start while Height() < MaxHeight.
MaxHeight == 2

\* ------------------------------------------------------- program constants
\* Header.Height is a uint32 and Blockchain.Height() converts to uint32.
\* Uint32Max stands for the largest uint32, 2^32 - 1; it is written as the
\* largest integer TLC represents, and uint32 arithmetic wraps around it.
Uint32Max == 2147483647

\* x + 1 and x - 1 on uint32
Inc32(x) == IF x = Uint32Max THEN 0 ELSE x + 1
Dec32(x) == IF x = 0 THEN Uint32Max ELSE x - 1

\* --------------------------------------------------------------- crypto
\* PrivateKey.PublicKey()
PublicKey(k) == <<"pub", k>>

\* The zero crypto.PublicKey of a block or transaction that was never signed.
NoKey == <<"nokey">>

\* A nil *crypto.Signature.
NilSignature == [key |-> NoKey, digest |-> <<>>]

\* The part of msg that ECDSA signs and verifies.
EcdsaDigest(msg) == msg.head

\* PrivateKey.Sign(data)
Sign(k, data) == [key |-> PublicKey(k), digest |-> EcdsaDigest(data)]

\* Signature.Verify(pubKey, data)
SigVerify(sig, pubKey, data) ==
    /\ sig.key = pubKey
    /\ sig.digest = EcdsaDigest(data)

\* --------------------------------------------------------------- hashing
\* types.Hash{}: the all-zero hash.
ZeroHash == <<"zero">>

\* sha256.Sum256(b)
Sha256(b) == <<"sha256", b>>


\* ------------------------------------------------------------ transactions
\* A transaction payload ([]byte) shorter than 32 bytes.
DataA == [head |-> <<"raw", "a">>, tail |-> <<>>]

\* NewTransaction(data); hash is the unexported field Hash fills, firstSeen
\* the one SetFirstSeen writes and FirstSeen reads, both zero until then.
NewTransaction(data) ==
    [Data |-> data, From |-> NoKey, Signature |-> NilSignature,
     hash |-> ZeroHash, firstSeen |-> 0]

\* Transaction.Sign(privKey)
TxSign(tx, k) == [tx EXCEPT !.From = PublicKey(k), !.Signature = Sign(k, tx.Data)]

Ok == "nil"

\* TxHasher.Hash(tx): SHA-256 of tx.Data alone.
TxHasherHash(tx) == Sha256(tx.Data)

\* tx.Hash(TxHasher{}): the transaction after the call; the hash field is
\* filled while it is zero.
TxHashed(tx) ==
    [tx EXCEPT !.hash = IF @ = ZeroHash THEN TxHasherHash(tx) ELSE @]

\* tx.Hash(TxHasher{}): the value returned, hasher.Hash(tx).
TxHash(tx) == TxHasherHash(tx)

\* Transaction.Verify()
TxVerify(tx) ==
    IF tx.Signature = NilSignature THEN "TxNoSignature"
    ELSE IF ~SigVerify(tx.Signature, tx.From, tx.Data) THEN "TxInvalidSignature"
    ELSE Ok

\* GobTxEncoder.Encode(tx): a fresh gob stream; gob leaves out a nil pointer
\* and a zero-valued struct.
GobTxEncode(tx) ==
    <<"gob", "Transaction", <<"Data", tx.Data>>>>
      \o (IF tx.From = NoKey THEN <<>> ELSE << <<"From", tx.From>> >>)
      \o (IF tx.Signature = NilSignature THEN <<>>
          ELSE << <<"Signature", tx.Signature>> >>)

\* CalculateDataHash(txx): SHA-256 of the concatenated encodings.
CalculateDataHash(txx) ==
    Sha256([head |-> IF txx = <<>> THEN <<>> ELSE <<"gob", "Transaction">>,
            tail |-> [i \in 1..Len(txx) |-> GobTxEncode(txx[i])]])

\* ------------------------------------------------------------------ blocks
\* Header.Bytes(): a fresh gob stream.  It opens with the type descriptor of
\* Header, which is longer than 32 bytes and the same for every header; gob
\* leaves out zero-valued integers and always sends arrays.
HeaderBytes(h) ==
    [head |-> <<"gob", "Header">>,
     tail |-> (IF h.Version = 0 THEN <<>> ELSE << <<"Version", h.Version>> >>)
              \o << <<"DataHash", h.DataHash>>, <<"PrevHash", h.PrevHash>> >>
              \o (IF h.Timestamp = 0 THEN <<>>
                  ELSE << <<"Timestamp", h.Timestamp>> >>)
              \o (IF h.Height = 0 THEN <<>> ELSE << <<"Height", h.Height>> >>)]

\* BlockHasher.Hash(header)
BlockHasherHash(h) == Sha256(HeaderBytes(h))

\* NewBlock(h, txx)
NewBlock(h, txx) ==
    [Header |-> h, Transactions |-> txx, Validator |-> NoKey,
     Signature |-> NilSignature, hash |-> ZeroHash]

\* b.Hash(BlockHasher{}): the block after the call; the hash field is
\* filled while it is zero.
BlockHashed(b) ==
    [b EXCEPT !.hash = IF @ = ZeroHash THEN BlockHasherHash(b.Header) ELSE @]

\* A Hash that hashes the header on every call.
BlockHashFresh(b) == BlockHasherHash(b.Header)

\* b.Hash(BlockHasher{}): the value returned, the hash field.
BlockHash(b) == BlockHashed(b).hash

\* Block.Sign(privKey)
BlockSign(b, k) ==
    [b EXCEPT !.Validator = PublicKey(k),
              !.Signature = Sign(k, HeaderBytes(b.Header))]

\* The error of the first transaction of txx, from index i on, that fails
\* Verify().
RECURSIVE FirstTxError(_, _)
FirstTxError(txx, i) ==
    IF i > Len(txx) THEN Ok
    ELSE IF TxVerify(txx[i]) # Ok THEN TxVerify(txx[i])
    ELSE FirstTxError(txx, i + 1)

\* Block.Verify()
BlockVerify(b) ==
    IF b.Signature = NilSignature THEN "NoSignature"
    ELSE IF ~SigVerify(b.Signature, b.Validator, HeaderBytes(b.Header))
      THEN "InvalidSignature"
    ELSE IF FirstTxError(b.Transactions, 1) # Ok
      THEN FirstTxError(b.Transactions, 1)
    ELSE IF CalculateDataHash(b.Transactions) # b.Header.DataHash
      THEN "ContentMismatch"
    ELSE Ok

\* -------------------------------------------------------------- ledger state
VARIABLES
    headers,    \* Blockchain.headers: the accepted headers, genesis first
    validator,  \* Blockchain.validator: the Validator in force
    store,      \* Blockchain.store: the Storage implementation
    callers,    \* the goroutines that call into the Blockchain
    call,       \* per goroutine: the call it is in, or the one it made last
    growth      \* history: the number of AddBlock calls made so far while each
                \* of them submitted a well-formed block for the next height
                \* linked to the tip, and -1 once one did not

\* A Transaction a caller builds, signs, alters and verifies.
VARIABLES
    txn,        \* the Transaction
    txnLog      \* the operation applied to it last, the error of the last
                \* Verify, and the key and the Data of the last Sign

txVars == <<txn, txnLog>>

\* A Block a caller builds, signs, alters and verifies.
VARIABLES
    blk,        \* the Block
    blkLog      \* the operation applied to it last, the one before, the error
                \* the last one returned and the block as Sign last left it

blockVars == <<blk, blkLog>>

\* A TxPool and its callers.
VARIABLES
    pool,       \* TxPool.transactions: a map, a set of (hash, tx) entries
    now,        \* time.Now().UnixNano() on the pool's node
    added,      \* history: the transactions handed to Add since the last Flush
    poolLog,    \* the last call on the pool, its argument and results
    poolCall    \* per goroutine: the call on the pool it is inside of

poolVars == <<pool, now, added, poolLog, poolCall>>

\* A Header or Block of the first format on its way through a bytes.Buffer.
VARIABLES
    enc,        \* the block (or its header) that is written
    buf,        \* the bytes.Buffer: the bytes written and not yet read
    dec,        \* the block (or its header) that is read into
    codecLog    \* the last two calls on the buffer and the last error

codecVars == <<enc, buf, dec, codecLog>>

\* Transports, the Servers on them and the messages between them.
VARIABLES
    peers,      \* per address: LocalTransport.peers, the addresses connected to
    consumeCh,  \* per address: the RPCs on the channel Consume() returns
    outbox,     \* the Broadcast calls in progress
    memPool,    \* per address: the Server's memPool
    running,    \* per address: whether the Server's Start loop is alive
    clock,      \* time.Now().UnixNano(), the same on every node
    netLog      \* history: the last call, what was sent and what was consumed

netVars == <<peers, consumeCh, outbox, memPool, running, clock, netLog>>

ledgerVars == <<headers, validator, store, callers, call, growth>>

vars == <<ledgerVars, txVars, blockVars, poolVars, codecVars, netVars>>

Goroutines == {1, 2}

\* The goroutines that also read the chain and set the validator.
Clients == {1}

\* Height() without the - 1.
HeightOffByOne(hs) == Len(hs)

\* Blockchain.Height(): uint32(len(bc.headers) - 1)
Height(hs) == IF Len(hs) = 0 THEN Uint32Max ELSE Len(hs) - 1

\* HasBlock with < for <=.
HasBlockStrict(hs, height) == height < Height(hs)

\* Blockchain.HasBlock(height)
HasBlock(hs, height) == height <= Height(hs)

\* Storage.Put(b): MemoryStorage returns nil; the interface lets another
\* implementation fail.
StorePut(st, b) == IF st = "MemoryStorage" THEN Ok ELSE "StoreError"

\* The zero Header, standing for the nil *Header of a failed GetHeader.
NoHeader ==
    [Version |-> 0, DataHash |-> ZeroHash, PrevHash |-> ZeroHash,
     Timestamp |-> 0, Height |-> 0]

NoBlock == NewBlock(NoHeader, <<>>)

Idle ==
    [pc |-> "idle", op |-> "none", b |-> NoBlock, h |-> 0, v |-> "none",
     verr |-> Ok, err |-> Ok, out |-> NoHeader, num |-> 0, pre |-> <<>>]

\* ------------------------------------------------------- candidate blocks
\* A signed transaction, and one that was never signed.
GoodTx == TxSign(NewTransaction(DataA), "k1")
UnsignedTx == NewTransaction(DataA)

\* What the producer did after NewBlock: nothing, Sign(k1), or Sign(k1)
\* followed by b.Validator = k2.PublicKey().
Seal(b, mode) ==
    CASE mode = "unsigned" -> b
      [] mode = "signed" -> BlockSign(b, "k1")
      [] mode = "rekeyed" ->
           [BlockSign(b, "k1") EXCEPT !.Validator = PublicKey("k2")]

\* The kinds of block a caller builds, as <<batch, commit, seal mode,
\* timestamp>>; commit TRUE: the header's DataHash is CalculateDataHash of the
\* batch, FALSE: it is left zero.  A producer's blocks are well formed.
ProducerKinds == { <<(<<GoodTx>>), TRUE, "signed", 2>> }

BlockKinds ==
    ProducerKinds \cup
    { <<(<<GoodTx>>), TRUE, "signed", 1>>, <<(<<GoodTx>>), TRUE, "unsigned", 1>>,
      <<(<<GoodTx>>), TRUE, "rekeyed", 1>>,
      <<(<<GoodTx>>), FALSE, "signed", 1>>,
      <<(<<UnsignedTx>>), TRUE, "signed", 1>>,
      <<(<<UnsignedTx>>), FALSE, "unsigned", 1>> }

\* The previous-hash values a producer may use: the hash of the tip and the
\* zero hash.
PrevHashes(hs) == {BlockHasherHash(hs[Len(hs)]), ZeroHash}

\* The blocks of the given kinds at the given heights.
BlocksOf(hs, heights, kinds) ==
    { Seal(NewBlock([Version |-> 1,
                     DataHash |-> IF k[2] THEN CalculateDataHash(k[1])
                                  ELSE ZeroHash,
                     PrevHash |-> ph,
                     Timestamp |-> k[4],
                     Height |-> ht], k[1]), k[3]) :
        ht \in heights, ph \in PrevHashes(hs), k \in kinds }

\* The blocks goroutine p may submit.  Goroutine 1 is a client that submits
\* blocks of every kind and reads the chain; the others are producers that
\* submit well-formed blocks.  While a
\* custom validator is installed the blocks are malformed ones at an occupied
\* and at a too high height.
Candidates(p, hs, v) ==
    IF v # "BlockValidator"
      THEN BlocksOf(hs, {0, Height(hs) + 2},
                    {<<(<<UnsignedTx>>), FALSE, "unsigned", 1>>})
    ELSE IF p = 1
      THEN BlocksOf(hs, 0..(MaxHeight + 1), BlockKinds)
    ELSE BlocksOf(hs, 0..(MaxHeight + 1), ProducerKinds)

\* -------------------------------------------------------------- AddBlock
\* AddBlock that drops the validator's error and appends all the same.
AddBlockIgnoresVerdict(c, verr) == [c EXCEPT !.verr = verr, !.pc = "Append"]

\* Blockchain.AddBlock after ValidateBlock has returned verr: return the
\* error, or go on to addBlockWithoutValidation.
AddBlockAfterValidate(c, verr) ==
    IF verr # Ok
      THEN [c EXCEPT !.verr = verr, !.err = verr, !.pc = "done"]
      ELSE [c EXCEPT !.verr = Ok, !.pc = "Append"]

\* The Validator implementations: BlockValidator runs the checks below, the
\* custom one accepts every block.
CustomValidate(b) == Ok

\* b is a block that Verify() accepts, at the height after the tip of hs and
\* with the hash of that tip as its PrevHash.
ValidNext(b, hs) ==
    /\ b.Header.Height = Height(hs) + 1
    /\ b.Header.PrevHash = BlockHasherHash(hs[Len(hs)])
    /\ BlockVerify(b) = Ok

\* AddBlock(b) is called: bc.validator is read and ValidateBlock starts.
AddBlockCall(p) ==
    /\ call[p].pc \in {"idle", "done"}
    /\ Height(headers) < MaxHeight
    /\ \E b \in Candidates(p, headers, validator) :
         LET c == [Idle EXCEPT !.op = "AddBlock", !.b = b, !.v = validator,
                               !.pre = headers]
         IN /\ call' = [call EXCEPT ![p] =
                   IF validator = "BlockValidator"
                     THEN [c EXCEPT !.pc = "HasBlock"]
                     ELSE AddBlockAfterValidate(c, CustomValidate(b))]
            /\ growth' = IF growth >= 0 /\ ValidNext(b, headers)
                           THEN growth + 1 ELSE -1
    /\ UNCHANGED <<headers, validator, store, callers, txVars, blockVars, poolVars, codecVars, netVars>>

\* ValidateBlock: if v.bc.HasBlock(b.Height) { return error }
ValidateHasBlock(p) ==
    LET c == call[p] IN
    /\ c.pc = "HasBlock"
    /\ call' = [call EXCEPT ![p] =
           IF HasBlock(headers, c.b.Header.Height)
             THEN AddBlockAfterValidate(c, "DuplicateHeight")
             ELSE [c EXCEPT !.pc = "HeightCheck"]]
    /\ UNCHANGED <<headers, validator, store, callers, growth, txVars, blockVars, poolVars, codecVars, netVars>>

\* The height check with < for !=.
HeightTooLow(hs, b) == b.Header.Height < Inc32(Height(hs))

\* ValidateBlock: b.Height != v.bc.Height()+1
HeightMismatch(hs, b) == b.Header.Height # Inc32(Height(hs))

\* ValidateBlock: if b.Height != v.bc.Height()+1 { return error }; then the
\* call of GetHeader(b.Height - 1).
ValidateHeight(p) ==
    LET c == call[p] IN
    /\ c.pc = "HeightCheck"
    /\ call' = [call EXCEPT ![p] =
           IF HeightMismatch(headers, c.b)
             THEN AddBlockAfterValidate(c, "HeightMismatch")
             ELSE [c EXCEPT !.pc = "GetHeader",
                            !.h = Dec32(c.b.Header.Height)]]
    /\ UNCHANGED <<headers, validator, store, callers, growth, txVars, blockVars, poolVars, codecVars, netVars>>

\* The bound test with >= for >.
AtOrOutOfRange(hs, height) == height >= Height(hs)

\* GetHeader: height > bc.Height()
OutOfRange(hs, height) == height > Height(hs)

\* GetHeader: if height > bc.Height() { return nil, error }
GetHeaderBound(p) ==
    LET c == call[p] IN
    /\ c.pc = "GetHeader"
    /\ call' = [call EXCEPT ![p] =
           IF OutOfRange(headers, c.h)
             THEN IF c.op = "GetHeader"
                    THEN [c EXCEPT !.err = "HeightOutOfRange", !.pc = "done"]
                    ELSE AddBlockAfterValidate(c, "HeightOutOfRange")
             ELSE [c EXCEPT !.pc = "GetHeaderRead"]]
    /\ UNCHANGED <<headers, validator, store, callers, growth, txVars, blockVars, poolVars, codecVars, netVars>>

\* ValidateBlock without the PrevHash comparison.
ValidateBlockOnly(prevHeader, b) == BlockVerify(b)

\* ValidateBlock with b.Verify() before the PrevHash comparison.
ValidateBlockThenLink(prevHeader, b) ==
    IF BlockVerify(b) # Ok THEN BlockVerify(b)
    ELSE IF BlockHasherHash(prevHeader) # b.Header.PrevHash
      THEN "PrevHashMismatch"
    ELSE Ok

\* ValidateBlock after GetHeader: the PrevHash comparison, then b.Verify().
ValidateLinkAndBlock(prevHeader, b) ==
    IF BlockHasherHash(prevHeader) # b.Header.PrevHash
      THEN "PrevHashMismatch"
      ELSE BlockVerify(b)

\* GetHeader: return bc.headers[height], nil; in ValidateBlock the rest of the
\* validation follows.
GetHeaderRead(p) ==
    LET c == call[p]
        prevHeader == headers[c.h + 1]
    IN
    /\ c.pc = "GetHeaderRead"
    /\ call' = [call EXCEPT ![p] =
           IF c.op = "GetHeader"
             THEN [c EXCEPT !.out = prevHeader, !.pc = "done"]
             ELSE AddBlockAfterValidate(c, ValidateLinkAndBlock(prevHeader, c.b))]
    /\ UNCHANGED <<headers, validator, store, callers, growth, txVars, blockVars, poolVars, codecVars, netVars>>

\* An append that writes over the tip.
OverwriteTip(hs, b) ==
    IF hs = <<>> THEN <<b.Header>> ELSE [hs EXCEPT ![Len(hs)] = b.Header]

\* addBlockWithoutValidation: bc.headers = append(bc.headers, b.Header)
AppendHeader(hs, b) == Append(hs, b.Header)

AddBlockAppend(p) ==
    LET c == call[p] IN
    /\ c.pc = "Append"
    /\ headers' = AppendHeader(headers, c.b)
    /\ call' = [call EXCEPT ![p] = [c EXCEPT !.pc = "Put"]]
    /\ UNCHANGED <<validator, store, callers, growth, txVars, blockVars, poolVars, codecVars, netVars>>

\* addBlockWithoutValidation: return bc.store.Put(b)
AddBlockPut(p) ==
    LET c == call[p] IN
    /\ c.pc = "Put"
    /\ call' = [call EXCEPT ![p] =
           [c EXCEPT !.err = StorePut(store, c.b), !.pc = "done"]]
    /\ UNCHANGED <<headers, validator, store, callers, growth, txVars, blockVars, poolVars, codecVars, netVars>>

\* ------------------------------------------------------- other operations
\* GetHeader(height) is called.
GetHeaderCall(p) ==
    /\ call[p].pc \in {"idle", "done"}
    /\ \E height \in 0..(MaxHeight + 1) :
         call' = [call EXCEPT ![p] =
             [Idle EXCEPT !.op = "GetHeader", !.h = height, !.pre = headers,
                          !.pc = "GetHeader"]]
    /\ UNCHANGED <<headers, validator, store, callers, growth, txVars, blockVars, poolVars, codecVars, netVars>>

\* Height()
HeightCall(p) ==
    /\ call[p].pc \in {"idle", "done"}
    /\ call' = [call EXCEPT ![p] =
           [Idle EXCEPT !.op = "Height", !.num = Height(headers),
                        !.pre = headers, !.pc = "done"]]
    /\ UNCHANGED <<headers, validator, store, callers, growth, txVars, blockVars, poolVars, codecVars, netVars>>

\* HasBlock(height)
HasBlockCall(p) ==
    /\ call[p].pc \in {"idle", "done"}
    /\ \E height \in 0..(MaxHeight + 1) :
         call' = [call EXCEPT ![p] =
             [Idle EXCEPT !.op = "HasBlock", !.h = height,
                          !.num = IF HasBlock(headers, height) THEN 1 ELSE 0,
                          !.pre = headers, !.pc = "done"]]
    /\ UNCHANGED <<headers, validator, store, callers, growth, txVars, blockVars, poolVars, codecVars, netVars>>

\* SetValidator(v)
SetValidator(p) ==
    /\ call[p].pc \in {"idle", "done"}
    /\ \E v \in {"BlockValidator", "CustomValidator"} :
         /\ validator' = v
         /\ call' = [call EXCEPT ![p] =
                [Idle EXCEPT !.op = "SetValidator", !.v = v, !.pre = headers,
                             !.pc = "done"]]
    /\ UNCHANGED <<headers, store, callers, growth, txVars, blockVars, poolVars, codecVars, netVars>>

\* ------------------------------------------------- a transaction in hand
\* Two more payloads shorter than 32 bytes.
DataB == [head |-> <<"raw", "b">>, tail |-> <<>>]
DataC == [head |-> <<"raw", "c">>, tail |-> <<>>]

\* Two payloads longer than 32 bytes that agree in their leftmost 32 bytes.
DataLong1 == [head |-> <<"raw", "x">>, tail |-> <<"y">>]
DataLong2 == [head |-> <<"raw", "x">>, tail |-> <<"z">>]

\* The payloads of the transactions a caller builds.
TxData == {DataA, DataB, DataLong1, DataLong2}

\* No operation was applied yet.
NoTxnLog ==
    [op |-> "none", err |-> Ok, key |-> "none", data |-> DataA,
     hash |-> ZeroHash, first |-> ZeroHash]

\* tx.Sign(privKey): it returns nil on every path the model has.
TxnSign ==
    /\ \E k \in {"k1", "k2"} :
         /\ txn' = TxSign(txn, k)
         /\ txnLog' = [txnLog EXCEPT !.op = "Sign", !.err = Ok, !.key = k,
                                     !.data = txn.Data]
    /\ UNCHANGED <<ledgerVars, blockVars, poolVars, codecVars, netVars>>

\* tx.From = otherPrivKey.PublicKey()
TxnSetFrom ==
    /\ \E k \in {"k1", "k2"} :
         /\ txn.From # PublicKey(k)
         /\ txn' = [txn EXCEPT !.From = PublicKey(k)]
    /\ txnLog' = [txnLog EXCEPT !.op = "edit", !.err = Ok]
    /\ UNCHANGED <<ledgerVars, blockVars, poolVars, codecVars, netVars>>

\* tx.Data = data
TxnSetData ==
    /\ \E d \in TxData :
         /\ txn.Data # d
         /\ txn' = [txn EXCEPT !.Data = d]
    /\ txnLog' = [txnLog EXCEPT !.op = "edit", !.err = Ok]
    /\ UNCHANGED <<ledgerVars, blockVars, poolVars, codecVars, netVars>>

\* tx.Hash(TxHasher{}); hash is the value returned, first the value the
\* first call on this transaction returned.
TxnHash ==
    /\ txn' = TxHashed(txn)
    /\ txnLog' = [txnLog EXCEPT !.op = "Hash", !.err = Ok, !.hash = TxHash(txn),
                                !.first = IF txn.hash = ZeroHash THEN TxHash(txn)
                                          ELSE @]
    /\ UNCHANGED <<ledgerVars, blockVars, poolVars, codecVars, netVars>>

\* tx.Verify()
TxnVerify ==
    /\ txnLog' = [txnLog EXCEPT !.op = "Verify", !.err = TxVerify(txn)]
    /\ UNCHANGED <<txn, ledgerVars, blockVars, poolVars, codecVars, netVars>>

\* ------------------------------------------------------- a block in hand
\* A caller holds a *Block: it appends transactions, writes the exported
\* fields, signs and verifies.  The batch holds at most MaxTxs transactions.
MaxTxs == 2

\* GoodTx with From overwritten by another key, as TestVerifyTransaction does.
ForgedTx == [GoodTx EXCEPT !.From = PublicKey("k2")]

\* The transactions a caller puts into a block.
BlockTxs == {GoodTx, UnsignedTx, ForgedTx}

\* The keys blocks are signed with.
ValidatorKeys == {"k1", "k2"}

\* Block.AddTransaction(tx)
BlockAddTransaction(b, tx) == [b EXCEPT !.Transactions = Append(@, tx)]

\* b.Header.DataHash = CalculateDataHash(b.Transactions), as randomBlock does.
BlockCommit(b) ==
    [b EXCEPT !.Header.DataHash = CalculateDataHash(b.Transactions)]

\* A signed block is altered at most MaxEdits times before it is signed
\* again.
MaxEdits == 1

\* No operation was applied yet.  op is the operation applied last, err the
\* error of the last Verify, since the field writes made after the last Sign,
\* hash the value the last Hash returned, hashed the header at the first Hash.
NoBlkLog ==
    [op |-> "none", err |-> Ok, since |-> <<>>, hash |-> ZeroHash,
     hashed |-> NoHeader]

\* The block may be altered.
BlkOpen == blk.Signature = NilSignature \/ Len(blkLog.since) < MaxEdits

\* The log after the field write edit.
BlkEdited(edit) ==
    [blkLog EXCEPT !.op = "edit", !.err = Ok,
                   !.since = IF blk.Signature = NilSignature THEN <<>>
                             ELSE Append(@, edit)]

\* b.AddTransaction(tx)
BlkAddTransaction ==
    /\ BlkOpen
    /\ Len(blk.Transactions) < MaxTxs
    /\ \E tx \in BlockTxs : blk' = BlockAddTransaction(blk, tx)
    /\ blkLog' = BlkEdited("AddTransaction")
    /\ UNCHANGED <<ledgerVars, txVars, poolVars, codecVars, netVars>>

\* b.Transactions = b.Transactions[:len(b.Transactions)-1]
BlkDropTransaction ==
    /\ BlkOpen
    /\ Len(blk.Transactions) > 0
    /\ blk' = [blk EXCEPT !.Transactions = SubSeq(@, 1, Len(@) - 1)]
    /\ blkLog' = BlkEdited("DropTransaction")
    /\ UNCHANGED <<ledgerVars, txVars, poolVars, codecVars, netVars>>

\* b.Transactions[i] = tx
BlkReplaceTransaction ==
    /\ BlkOpen
    /\ \E i \in 1..Len(blk.Transactions) : \E tx \in BlockTxs :
         /\ tx # blk.Transactions[i]
         /\ blk' = [blk EXCEPT !.Transactions[i] = tx]
    /\ blkLog' = BlkEdited("ReplaceTransaction")
    /\ UNCHANGED <<ledgerVars, txVars, poolVars, codecVars, netVars>>

\* b.Header.DataHash = dataHash
BlkCommit ==
    /\ BlkOpen
    /\ blk' = BlockCommit(blk)
    /\ blk' # blk
    /\ blkLog' = BlkEdited("Commit")
    /\ UNCHANGED <<ledgerVars, txVars, poolVars, codecVars, netVars>>

\* b.Sign(privKey): it returns nil on every path the model has.
BlkSign ==
    /\ \E k \in ValidatorKeys : blk' = BlockSign(blk, k)
    /\ blkLog' = [blkLog EXCEPT !.op = "Sign", !.err = Ok, !.since = <<>>]
    /\ UNCHANGED <<ledgerVars, txVars, poolVars, codecVars, netVars>>

\* b.Validator = otherPrivKey.PublicKey()
BlkSetValidator ==
    /\ BlkOpen
    /\ \E k \in ValidatorKeys :
         /\ blk.Validator # PublicKey(k)
         /\ blk' = [blk EXCEPT !.Validator = PublicKey(k)]
    /\ blkLog' = BlkEdited("SetValidator")
    /\ UNCHANGED <<ledgerVars, txVars, poolVars, codecVars, netVars>>

\* b.Height = 1
BlkSetHeight ==
    /\ BlkOpen
    /\ \E ht \in {0, 1} :
         /\ blk.Header.Height # ht
         /\ blk' = [blk EXCEPT !.Header.Height = ht]
    /\ blkLog' = BlkEdited("SetHeight")
    /\ UNCHANGED <<ledgerVars, txVars, poolVars, codecVars, netVars>>

\* b.Hash(BlockHasher{})
BlkHash ==
    /\ blk' = BlockHashed(blk)
    /\ blkLog' = [blkLog EXCEPT !.op = "Hash", !.err = Ok, !.hash = BlockHash(blk),
                                !.hashed = IF blk.hash = ZeroHash THEN blk.Header
                                           ELSE @]
    /\ UNCHANGED <<ledgerVars, txVars, poolVars, codecVars, netVars>>

\* b.Verify()
BlkVerify ==
    /\ blkLog' = [blkLog EXCEPT !.op = "Verify", !.err = BlockVerify(blk)]
    /\ UNCHANGED <<blk, ledgerVars, txVars, poolVars, codecVars, netVars>>

\* ------------------------------------------------------------ the mempool
\* Add is called at the times 1..MaxClock, one call per tick of the clock.
MaxClock == 3

\* The first-seen values callers stamp on a transaction before they hand it
\* to the pool are 1..MaxSeen; a transaction never stamped has 0.
MaxSeen == 2

\* Transaction.SetFirstSeen(t)
SetFirstSeen(tx, t) == [tx EXCEPT !.firstSeen = t]

\* The transactions callers hand to the pool: three payloads signed by one
\* sender and stamped, the first of them also signed by another sender and
\* never stamped.
PoolTxs ==
    { SetFirstSeen(TxSign(NewTransaction(d), "k1"), t) :
        d \in {DataA, DataB, DataC}, t \in 1..MaxSeen }
      \cup { TxSign(NewTransaction(DataA), "k2") }

PoolHashes == { TxHasherHash(tx) : tx \in PoolTxs }

\* An append to a list for the keyed store.
MapAppend(m, hash, tx) == m \cup {[hash |-> hash, tx |-> tx]}

\* A store that drops the entries of the other keys.
MapStoreAlone(m, hash, tx) == {[hash |-> hash, tx |-> tx]}

\* m[hash] = tx on a Go map: the entry of the key is replaced.
MapStore(m, hash, tx) ==
    {e \in m : e.hash # hash} \cup {[hash |-> hash, tx |-> tx]}

\* _, ok := m[hash]
MapHas(m, hash) == \E e \in m : e.hash = hash

\* len(m)
MapLen(m) == Cardinality(m)

\* NewTxPool(): an empty map.
NewTxPool == {}

\* A Flush that leaves one entry behind.
FlushAllButOne(m) == IF m = {} THEN {} ELSE {CHOOSE e \in m : TRUE}

\* TxPool.Flush(): the map after the call, a new empty map.
PoolFlush(m) == {}

\* TxPool.Add(tx): the map after the call; tx.Hash has filled tx's hash
\* field before tx is stored.
PoolAdd(m, tx) == MapStore(m, TxHash(tx), TxHashed(tx))

\* TxPool.Add(tx): the error returned, nil on its one path.
PoolAddError(m, tx) == Ok

\* Less with the comparison turned around.
LessDescending(a, b) == a.firstSeen > b.firstSeen

\* TxMapSorter.Less on two transactions
TxMapSorterLess(a, b) == a.firstSeen < b.firstSeen

\* The inner loop of the insertion sort sort.Sort runs on a short slice:
\* x moves left past every element it is Less than.
RECURSIVE SortInsert(_, _)
SortInsert(s, x) ==
    IF Len(s) > 0 /\ TxMapSorterLess(x, s[Len(s)])
      THEN Append(SortInsert(SubSeq(s, 1, Len(s) - 1), x), s[Len(s)])
      ELSE Append(s, x)

\* sort.Sort(s) for fewer than 12 elements: insertion sort.
RECURSIVE SortSort(_)
SortSort(s) ==
    IF Len(s) = 0 THEN <<>>
    ELSE SortInsert(SortSort(SubSeq(s, 1, Len(s) - 1)), s[Len(s)])

\* for _, tx := range txs: a Go map is ranged over in an unspecified order
\* that varies from one loop to the next.
MapRanges(m) ==
    { [i \in 1..Cardinality(m) |-> f[i].tx] :
        f \in { g \in [1..Cardinality(m) -> m] :
                  \A i, j \in 1..Cardinality(m) : i # j => g[i] # g[j] } }

\* NewTxMapSorter(txs).transactions: the results the call can give.
NewTxMapSorter(m) == { SortSort(r) : r \in MapRanges(m) }

\* No call was made yet.
NoPoolLog ==
    [op |-> "none", tx |-> NewTransaction(DataA), hash |-> ZeroHash,
     pre |-> {}, at |-> 0, err |-> Ok, has |-> FALSE, len |-> 0, txx |-> <<>>,
     prev |-> "none", prevTxx |-> <<>>, flushed |-> {}]

\* The log of a call op, with the fields of NoPoolLog that it fills.
PoolLogged(op, fields) ==
    [f \in DOMAIN NoPoolLog |->
       IF f \in DOMAIN fields THEN fields[f]
       ELSE IF f = "op" THEN op
       ELSE IF f = "pre" THEN pool
       ELSE IF f = "prev" THEN poolLog.op
       ELSE IF f = "prevTxx" THEN poolLog.txx
       ELSE IF f = "flushed" /\ poolLog.op = "Flush" THEN poolLog.pre
       ELSE NoPoolLog[f]]

\* p.Add(tx)
TxPoolAdd ==
    /\ now <= MaxClock
    /\ \E tx \in PoolTxs :
         /\ pool' = PoolAdd(pool, tx)
         /\ added' = Append(added, TxHashed(tx))
         /\ poolLog' = PoolLogged("Add", [tx |-> TxHashed(tx), at |-> now,
                                       err |-> PoolAddError(pool, tx)])
    /\ now' = now + 1
    /\ UNCHANGED <<poolCall, ledgerVars, txVars, blockVars, codecVars, netVars>>

\* p.Has(hash)
TxPoolHas ==
    /\ \E hash \in PoolHashes :
         poolLog' = PoolLogged("Has", [hash |-> hash, has |-> MapHas(pool, hash)])
    /\ UNCHANGED <<pool, now, added, poolCall, ledgerVars, txVars, blockVars, codecVars, netVars>>

\* p.Len()
TxPoolLen ==
    /\ poolLog' = PoolLogged("Len", [len |-> MapLen(pool)])
    /\ UNCHANGED <<pool, now, added, poolCall, ledgerVars, txVars, blockVars, codecVars, netVars>>

\* p.Transactions()
TxPoolTransactions ==
    /\ \E txx \in NewTxMapSorter(pool) :
         poolLog' = PoolLogged("Transactions", [txx |-> txx])
    /\ UNCHANGED <<pool, now, added, poolCall, ledgerVars, txVars, blockVars, codecVars, netVars>>

\* p.Flush()
TxPoolFlush ==
    /\ pool' = PoolFlush(pool)
    /\ added' = <<>>
    /\ poolLog' = PoolLogged("Flush", [op |-> "Flush"])
    /\ UNCHANGED <<now, poolCall, ledgerVars, txVars, blockVars, codecVars, netVars>>

\* ------------------------------------------- the mempool, several callers
\* TxPool has no lock: a goroutine enters a method and reaches the statement
\* on p.transactions with no other goroutine held back, and the statement is
\* not atomic.  A call is two steps, the start of its map access and the end.
OutsidePool == [pc |-> "idle", op |-> "none", tx |-> NewTransaction(DataA)]

\* The calls that write the map (Add stores, Flush assigns the field).
PoolWrites == {"Add", "Flush"}

\* Goroutine p's map access overlaps one of another goroutine, and one of the
\* two writes: a data race.
PoolRace(p) ==
    \E q \in Goroutines \ {p} :
        /\ poolCall[q].pc = "inMap"
        /\ poolCall[p].op \in PoolWrites \/ poolCall[q].op \in PoolWrites

\* Goroutine p calls Add, Flush or Transactions and starts its map access.
PoolEnter(p) ==
    /\ poolCall[p].pc = "idle"
    /\ \A q \in Goroutines : poolCall[q].pc # "fault"
    /\ \E op \in {"Add", "Flush", "Transactions"} :
         \E tx \in (IF op = "Add" THEN PoolTxs ELSE {NewTransaction(DataA)}) :
           poolCall' = [poolCall EXCEPT ![p] = [pc |-> "inMap", op |-> op, tx |-> tx]]
    /\ UNCHANGED <<pool, now, added, poolLog, ledgerVars, txVars, blockVars, codecVars, netVars>>

\* The map after goroutine p's access.
PoolAccessDone(p) ==
    IF poolCall[p].op = "Add" THEN PoolAdd(pool, poolCall[p].tx)
    ELSE IF poolCall[p].op = "Flush" THEN PoolFlush(pool)
    ELSE pool

\* Goroutine p's map access ends and the method returns.
PoolLeave(p) ==
    /\ poolCall[p].pc = "inMap"
    /\ pool' = PoolAccessDone(p)
    /\ poolCall' = [poolCall EXCEPT ![p].pc = "idle"]
    /\ UNCHANGED <<now, added, poolLog, ledgerVars, txVars, blockVars, codecVars, netVars>>

\* Goroutine p's map access races with another one and the runtime stops the
\* process ("concurrent map writes", "concurrent map read and map write").
PoolFault(p) ==
    /\ poolCall[p].pc = "inMap"
    /\ PoolRace(p)
    /\ poolCall' = [poolCall EXCEPT ![p].pc = "fault"]
    /\ UNCHANGED <<pool, now, added, poolLog, ledgerVars, txVars, blockVars, codecVars, netVars>>

\* ------------------------------------------------- the Server's mempool
\* The transactions that reach a Server: for each payload one validly
\* signed, one unsigned and one whose From was replaced, and for the first
\* payload one more validly signed by another sender.
ServerTxs ==
    UNION { { TxSign(NewTransaction(d), "k1"),
              NewTransaction(d),
              [TxSign(NewTransaction(d), "k1") EXCEPT !.From = PublicKey("k2")] } :
            d \in {DataA, DataB, DataC} }
      \cup { TxSign(NewTransaction(DataA), "k2") }

\* processTransaction without the Verify() test.
ProcessUnverified(m, tx, t) ==
    IF MapHas(m, TxHasherHash(tx)) THEN [pool |-> m, err |-> Ok, added |-> FALSE]
    ELSE [pool |-> PoolAdd(m, SetFirstSeen(tx, t)),
          err |-> PoolAddError(m, SetFirstSeen(tx, t)), added |-> TRUE]

\* processTransaction with Verify() before Has(), as handleTransaction had it.
ProcessVerifyFirst(m, tx, t) ==
    IF TxVerify(tx) # Ok
      THEN [pool |-> m, err |-> TxVerify(tx), added |-> FALSE]
    ELSE IF MapHas(m, TxHasherHash(tx)) THEN [pool |-> m, err |-> Ok, added |-> FALSE]
    ELSE [pool |-> PoolAdd(m, SetFirstSeen(tx, t)),
          err |-> PoolAddError(m, SetFirstSeen(tx, t)), added |-> TRUE]

\* processTransaction without the SetFirstSeen call.
ProcessUnstamped(m, tx, t) ==
    IF MapHas(m, TxHasherHash(tx)) THEN [pool |-> m, err |-> Ok, added |-> FALSE]
    ELSE IF TxVerify(tx) # Ok
      THEN [pool |-> m, err |-> TxVerify(tx), added |-> FALSE]
    ELSE [pool |-> PoolAdd(m, tx), err |-> PoolAddError(m, tx), added |-> TRUE]

\* processTransaction without the Has() test.
ProcessWithoutHas(m, tx, t) ==
    IF TxVerify(tx) # Ok
      THEN [pool |-> m, err |-> TxVerify(tx), added |-> FALSE]
    ELSE [pool |-> PoolAdd(m, SetFirstSeen(tx, t)),
          err |-> PoolAddError(m, SetFirstSeen(tx, t)), added |-> TRUE]

\* Server.processTransaction(tx) at time t on the mempool m: the mempool
\* after the call, the error returned, and whether Add was reached.
ProcessTransaction(m, tx, t) ==
    IF MapHas(m, TxHasherHash(tx)) THEN [pool |-> m, err |-> Ok, added |-> FALSE]
    ELSE IF TxVerify(tx) # Ok
      THEN [pool |-> m, err |-> TxVerify(tx), added |-> FALSE]
    ELSE [pool |-> PoolAdd(m, SetFirstSeen(tx, t)),
          err |-> PoolAddError(m, SetFirstSeen(tx, t)), added |-> TRUE]

\* s.processTransaction(tx); the clock moves on after every call.
ServerProcessTransaction ==
    /\ now <= MaxClock
    /\ \E tx \in ServerTxs :
         LET res == ProcessTransaction(pool, tx, now) IN
         /\ pool' = res.pool
         /\ added' = IF res.added
                       THEN Append(added, SetFirstSeen(TxHashed(tx), now))
                       ELSE added
         /\ poolLog' = PoolLogged("Process", [tx |-> TxHashed(tx), at |-> now,
                                              err |-> res.err])
    /\ now' = now + 1
    /\ UNCHANGED <<poolCall, ledgerVars, txVars, blockVars, codecVars, netVars>>

\* ---------------------------------------------------------- specifications
\* NewBlockchain(genesis): the genesis header is appended without validation,
\* whatever its height; the default validator and MemoryStorage are installed.
GenesisHeaders ==
    { [NoHeader EXCEPT !.Version = 1, !.Timestamp = 1, !.Height = ht] :
        ht \in {0, 1} }

\* A NewBlockchain that takes the genesis block only if it verifies.
NewBlockchainVerified(genesis) ==
    IF BlockVerify(genesis) = Ok THEN AppendHeader(<<>>, genesis) ELSE <<>>

\* NewBlockchain(genesis): the header list after addBlockWithoutValidation.
NewBlockchain(genesis) == AppendHeader(<<>>, genesis)

\* No caller holds a transaction.
NoTxInHand == txn = NewTransaction(DataA) /\ txnLog = NoTxnLog

\* No caller holds a block.
NoBlockInHand == blk = NoBlock /\ blkLog = NoBlkLog

\* No pool is in use.
NoPool ==
    /\ pool = NewTxPool /\ now = 1 /\ added = <<>> /\ poolLog = NoPoolLog
    /\ poolCall = [p \in Goroutines |-> OutsidePool]

\* No ledger is in use.
NoLedger ==
    /\ headers = <<>> /\ validator = "BlockValidator" /\ store = "MemoryStorage"
    /\ callers = {} /\ call = [p \in Goroutines |-> Idle] /\ growth = 0

\* ------------------------------------------------------ LocalTransport
\* The addresses of the transports.
Addrs == {"A", "B", "C"}

\* The payloads the transport tests send.
RawPayloads == {"Hello, World!", "Broadcast Message"}

\* The capacity of the channel behind Consume().
ChanCap == 2

\* The calls of SendMessage and Broadcast that clients make.
MaxSends == 3

\* An RPC that does not name its sender.
RPCWithoutSender(from, payload) == [From |-> "", Payload |-> payload]

\* The RPC SendMessage builds: RPC{From: t.addr, Payload: bytes.NewReader(payload)}.
NewRPC(from, payload) == [From |-> from, Payload |-> payload]

\* t.SendMessage(to, payload) on the transport at `from`: the channels after
\* the call and the error returned.
SendMessage(ps, chs, from, to, payload) ==
    IF to \notin ps[from] THEN [chs |-> chs, err |-> "peer not found"]
    ELSE [chs |-> [chs EXCEPT ![to] = Append(@, NewRPC(from, payload))],
          err |-> Ok]

\* The channel send of SendMessage does not block: there is no send, or the
\* peer's channel has room.
CanSend(from, to) == to \in peers[from] => Len(consumeCh[to]) < ChanCap

NoNetLog ==
    [op |-> "none", from |-> "", to |-> "", payload |-> "", err |-> Ok,
     calls |-> 0, want |-> [a \in Addrs |-> EmptyBag],
     got |-> [a \in Addrs |-> EmptyBag],
     tx |-> NewTransaction(DataA), perr |-> Ok, added |-> FALSE, at |-> 0,
     pre |-> {}, nil |-> FALSE, casts |-> EmptyBag]

\* The log after a call; `wanted` are the addresses the call has to reach.
\* What is to arrive is recorded for the clients that consume themselves,
\* not where a Server's loop takes the messages.
NetLogged(op, from, to, payload, err, wanted) ==
    [netLog EXCEPT !.op = op, !.from = from, !.to = to, !.payload = payload,
                   !.err = err,
                   !.want = [a \in Addrs |->
                               IF a \in wanted /\ ~running[a]
                                 THEN @[a] (+) SetToBag({[From |-> from, Payload |-> payload]})
                                 ELSE @[a]]]

\* t.SendMessage(to, payload) by a client, on one of the given transports
\* and with one of the given payloads, while the clients have made less
\* than `most` calls.
ClientSendMessage(senders, payloads, most) ==
    /\ netLog.calls < most
    /\ \E a \in senders, to \in Addrs, p \in payloads :
         /\ CanSend(a, to)
         /\ LET r == SendMessage(peers, consumeCh, a, to, p)
            IN  /\ consumeCh' = r.chs
                /\ netLog' = [NetLogged("SendMessage", a, to, p, r.err,
                                        {to} \cap peers[a])
                                EXCEPT !.calls = @ + 1]
    /\ UNCHANGED <<peers, outbox, memPool, running, clock>>
    /\ UNCHANGED <<ledgerVars, txVars, blockVars, poolVars, codecVars>>

\* tra.SendMessage(trb.Addr(), msg) of the transport tests.
TrSendMessage == ClientSendMessage(Addrs, RawPayloads, MaxSends)

\* tra.Broadcast(payload) by a client: the call begins; its loop ranges over
\* t.peers in any order.
TrBroadcast ==
    /\ netLog.calls < MaxSends
    /\ \E a \in Addrs, p \in RawPayloads :
         /\ \A o \in outbox : o.from # a \/ o.payload # p
         /\ outbox' = outbox \cup {[from |-> a, payload |-> p, todo |-> peers[a]]}
         /\ netLog' = [netLog EXCEPT !.calls = @ + 1]
    /\ UNCHANGED <<peers, consumeCh, memPool, running, clock>>
    /\ UNCHANGED <<ledgerVars, txVars, blockVars, poolVars, codecVars>>

\* One pass of the loop of Broadcast: t.SendMessage(peer.Addr(), payload) for
\* a peer not yet sent to; an error ends the call.
BroadcastSend ==
    /\ \E o \in outbox, to \in Addrs :
         /\ to \in o.todo
         /\ CanSend(o.from, to)
         /\ LET r == SendMessage(peers, consumeCh, o.from, to, o.payload)
            IN  /\ consumeCh' = r.chs
                /\ outbox' = (outbox \ {o}) \cup
                       (IF r.err = Ok THEN {[o EXCEPT !.todo = @ \ {to}]} ELSE {})
                /\ netLog' = [netLog EXCEPT !.op = "send", !.from = o.from,
                                            !.to = to, !.payload = o.payload,
                                            !.err = r.err]
    /\ UNCHANGED <<peers, memPool, running, clock>>
    /\ UNCHANGED <<ledgerVars, txVars, blockVars, poolVars, codecVars>>

\* Broadcast returns nil once its loop has passed every peer.
BroadcastReturn ==
    /\ \E o \in outbox :
         /\ o.todo = {}
         /\ outbox' = outbox \ {o}
         /\ netLog' = NetLogged("Broadcast", o.from, "", o.payload, Ok,
                                peers[o.from])
    /\ UNCHANGED <<peers, consumeCh, memPool, running, clock>>
    /\ UNCHANGED <<ledgerVars, txVars, blockVars, poolVars, codecVars>>

\* rpc := <-trb.Consume() by a client.
TrConsume ==
    /\ \E b \in Addrs :
         /\ consumeCh[b] # <<>>
         /\ consumeCh' = [consumeCh EXCEPT ![b] = Tail(@)]
         /\ netLog' = [netLog EXCEPT !.op = "Consume", !.to = b,
                                     !.from = Head(consumeCh[b]).From,
                                     !.payload = Head(consumeCh[b]).Payload,
                                     !.err = Ok,
                                     !.got[b] = @ (+) SetToBag({Head(consumeCh[b])})]
    /\ UNCHANGED <<peers, outbox, memPool, running, clock>>
    /\ UNCHANGED <<ledgerVars, txVars, blockVars, poolVars, codecVars>>

\* No transport is in use.
NoNet ==
    /\ peers = [a \in Addrs |-> {}] /\ consumeCh = [a \in Addrs |-> <<>>]
    /\ outbox = {} /\ memPool = [a \in Addrs |-> NewTxPool]
    /\ running = [a \in Addrs |-> FALSE] /\ clock = 1 /\ netLog = NoNetLog

\* ---- The first binary format: Header and Block through a bytes.Buffer ----

\* types.Hash is [32]uint8.
HashSize == 32

\* The encoded size of a uint32 and of a uint64 field.
Uint32Size == 4

Uint64Size == 8

\* The header fields of the first format, with their encoded sizes.
HeaderSizes ==
    [Version |-> Uint32Size, PrevHash |-> HashSize, Timestamp |-> Uint64Size,
     Height |-> Uint32Size, Nonce |-> Uint64Size]

\* A Header{} of the first format.
ZeroHeader ==
    [Version |-> 0, PrevHash |-> [i \in 1..HashSize |-> 0], Timestamp |-> 0,
     Height |-> 0, Nonce |-> 0]

\* A Block{} of the first format.
ZeroBlock == [Header |-> ZeroHeader, Transactions |-> <<>>]

\* The hashes a header is given: all zero, and 32 different bytes.
CodecHashes == {[i \in 1..HashSize |-> 0], [i \in 1..HashSize |-> 7 * i + 30]}

\* The headers that are written: every field zero or not, the integers with
\* one, several or all but the highest of their low 31 bits set.
CodecHeaders ==
    [Version : {0, 1}, PrevHash : CodecHashes, Timestamp : {0, 2147483647},
     Height : {0, 10, 2147483647}, Nonce : {0, 989394}]

RECURSIVE ListsUpTo(_, _)
\* The lists of at most n elements of S.
ListsUpTo(S, n) ==
    IF n = 0 THEN {<<>>}
    ELSE LET shorter == ListsUpTo(S, n - 1)
         IN  shorter \cup {Append(l, x) : l \in shorter, x \in S}

\* The blocks that are written.
CodecBlocks ==
    [Header : CodecHeaders, Transactions : ListsUpTo({GoodTx, UnsignedTx}, MaxTxs)]

RECURSIVE PutUint(_, _)
\* binary.Write(w, binary.LittleEndian, &n) for an unsigned n of `size`
\* bytes: the bytes of n, lowest first.
PutUint(n, size) ==
    IF size = 0 THEN <<>> ELSE <<n % 256>> \o PutUint(n \div 256, size - 1)

RECURSIVE Uint(_)
\* The unsigned integer binary.Read(r, binary.LittleEndian, &n) stores in n
\* from the bytes it read.
Uint(bytes) ==
    IF bytes = <<>> THEN 0 ELSE Head(bytes) + 256 * Uint(Tail(bytes))

\* The bytes binary.Write writes for a header field.
FieldBytes(h, name) ==
    IF name = "PrevHash" THEN h[name] ELSE PutUint(h[name], HeaderSizes[name])

\* Header.EncodeBinary: the fields in the order Version, PrevHash, Timestamp,
\* Height, Nonce.  Writing to a bytes.Buffer cannot fail.
HeaderEncodeBinary(h) ==
    FieldBytes(h, "Version") \o FieldBytes(h, "PrevHash")
        \o FieldBytes(h, "Timestamp") \o FieldBytes(h, "Height")
        \o FieldBytes(h, "Nonce")

RECURSIVE ReadFields(_, _, _)
\* binary.Read of the named fields, one after the other, returning at the
\* first error: a reader that cannot fill a field is emptied and the field
\* is left as it was.
ReadFields(names, h, bytes) ==
    IF names = <<>> THEN [h |-> h, rest |-> bytes, err |-> Ok]
    ELSE LET name == Head(names)
             size == HeaderSizes[name]
             read == SubSeq(bytes, 1, size)
         IN  IF Len(bytes) < size
             THEN [h |-> h, rest |-> <<>>,
                   err |-> IF bytes = <<>> THEN "EOF" ELSE "unexpected EOF"]
             ELSE ReadFields(Tail(names),
                      [h EXCEPT ![name] =
                          IF name = "PrevHash" THEN read ELSE Uint(read)],
                      SubSeq(bytes, size + 1, Len(bytes)))

\* A DecodeBinary that does not read the last field.
HeaderDecodeNoNonce(h, bytes) ==
    ReadFields(<<"Version", "PrevHash", "Timestamp", "Height">>, h, bytes)

\* Header.DecodeBinary into h: the header read, the bytes left, the error.
HeaderDecodeBinary(h, bytes) ==
    ReadFields(<<"Version", "PrevHash", "Timestamp", "Height", "Nonce">>,
               h, bytes)

\* Transaction.EncodeBinary: what it writes for tx, taken as one item of the
\* stream that gives tx back.
TransactionEncodeBinary(tx) == <<[Transaction |-> tx]>>

\* Transaction.DecodeBinary: the transaction read, the bytes left, the error.
TransactionDecodeBinary(tx, bytes) ==
    IF bytes = <<>> THEN [tx |-> tx, rest |-> <<>>, err |-> "EOF"]
    ELSE [tx |-> Head(bytes).Transaction, rest |-> Tail(bytes), err |-> Ok]

RECURSIVE EncodeTransactions(_)
\* The loop of Block.EncodeBinary over b.Transactions.
EncodeTransactions(txx) ==
    IF txx = <<>> THEN <<>>
    ELSE TransactionEncodeBinary(Head(txx)) \o EncodeTransactions(Tail(txx))

\* Block.EncodeBinary: the header, then each transaction.
BlockEncodeBinary(b) ==
    HeaderEncodeBinary(b.Header) \o EncodeTransactions(b.Transactions)

RECURSIVE DecodeTransactions(_, _)
\* The loop of Block.DecodeBinary: it ranges over the transactions the
\* receiver already has and decodes into the loop variable, a copy, so the
\* receiver's list keeps its length and its elements.
DecodeTransactions(txx, bytes) ==
    IF txx = <<>> THEN [rest |-> bytes, err |-> Ok]
    ELSE LET r == TransactionDecodeBinary(Head(txx), bytes)
         IN  IF r.err # Ok THEN [rest |-> r.rest, err |-> r.err]
             ELSE DecodeTransactions(Tail(txx), r.rest)

\* Block.DecodeBinary into b: the block read, the bytes left, the error.
BlockDecodeBinary(b, bytes) ==
    LET hd == HeaderDecodeBinary(b.Header, bytes)
        read == [b EXCEPT !.Header = hd.h]
        txs == DecodeTransactions(b.Transactions, hd.rest)
    IN  IF hd.err # Ok THEN [b |-> read, rest |-> hd.rest, err |-> hd.err]
        ELSE [b |-> read, rest |-> txs.rest, err |-> txs.err]

NoCodecLog == [op |-> "none", prev |-> "none", err |-> Ok]

CodecLogged(op, err) == [op |-> op, prev |-> codecLog.op, err |-> err]

\* The buffer has been written once and not been read.
Written == codecLog.op \in {"Header.EncodeBinary", "Block.EncodeBinary"}

\* h.EncodeBinary(buf) on the header in hand and an empty buffer.
HdrEncodeBinary ==
    /\ codecLog.op = "none"
    /\ buf' = buf \o HeaderEncodeBinary(enc.Header)
    /\ codecLog' = CodecLogged("Header.EncodeBinary", Ok)
    /\ UNCHANGED <<enc, dec, ledgerVars, txVars, blockVars, poolVars, netVars>>

\* hDecode.DecodeBinary(buf) into the header of a fresh receiver, from a
\* buffer that is empty or has been written once.
HdrDecodeBinary ==
    /\ codecLog.op = "none" \/ Written
    /\ LET r == HeaderDecodeBinary(dec.Header, buf)
       IN  /\ dec' = [dec EXCEPT !.Header = r.h]
           /\ buf' = r.rest
           /\ codecLog' = CodecLogged("Header.DecodeBinary", r.err)
    /\ UNCHANGED <<enc, ledgerVars, txVars, blockVars, poolVars, netVars>>

\* b.EncodeBinary(buf) on the block in hand and an empty buffer.
BlkEncodeBinary ==
    /\ codecLog.op = "none"
    /\ buf' = buf \o BlockEncodeBinary(enc)
    /\ codecLog' = CodecLogged("Block.EncodeBinary", Ok)
    /\ UNCHANGED <<enc, dec, ledgerVars, txVars, blockVars, poolVars, netVars>>

\* bDecode.DecodeBinary(buf) into a fresh receiver, from a buffer that is
\* empty or has been written once.
BlkDecodeBinary ==
    /\ codecLog.op = "none" \/ Written
    /\ LET r == BlockDecodeBinary(dec, buf)
       IN  /\ dec' = r.b
           /\ buf' = r.rest
           /\ codecLog' = CodecLogged("Block.DecodeBinary", r.err)
    /\ UNCHANGED <<enc, ledgerVars, txVars, blockVars, poolVars, netVars>>

\* No buffer is in use.
NoCodec ==
    /\ enc = ZeroBlock /\ buf = <<>> /\ dec = ZeroBlock /\ codecLog = NoCodecLog

\* A block to write, an empty bytes.Buffer and a fresh block to read into.
InitCodec ==
    /\ enc \in CodecBlocks
    /\ buf = <<>>
    /\ dec = ZeroBlock
    /\ codecLog = NoCodecLog
    /\ NoLedger
    /\ NoTxInHand
    /\ NoBlockInHand
    /\ NoPool
    /\ NoNet

NextCodec ==
    \/ HdrEncodeBinary
    \/ HdrDecodeBinary
    \/ BlkEncodeBinary
    \/ BlkDecodeBinary

\* One caller writing a header or a block and reading it back.
SpecCodec == InitCodec /\ [][NextCodec]_vars

\* ------------------------------- a Transaction through a bytes.Buffer
\* The value the stream carries for the named field, or the receiver's own
\* where the stream leaves the field out.
GobField(stream, name, own) ==
    LET at == {i \in 3..Len(stream) : stream[i][1] = name}
    IN  IF at = {} THEN own ELSE stream[CHOOSE i \in at : TRUE][2]

\* The error of gob.Decoder.Decode into a struct with the given exported
\* fields: the reader is empty, holds no gob stream, or holds a stream none
\* of whose fields the struct has.
GobError(stream, fields) ==
    IF stream = <<>> THEN "EOF"
    ELSE IF Head(stream) # "gob" THEN "gob: bad data"
    ELSE IF \A i \in 3..Len(stream) : stream[i][1] \notin fields
      THEN "gob: type mismatch: no fields matched"
    ELSE Ok

\* A decoder that does not store the Signature field.
GobTxDecodeNoSignature(tx, stream) ==
    IF GobError(stream, {"Data", "From", "Signature"}) # Ok
      THEN [tx |-> tx, err |-> GobError(stream, {"Data", "From", "Signature"})]
    ELSE [tx |-> [tx EXCEPT !.Data = GobField(stream, "Data", @),
                            !.From = GobField(stream, "From", @)],
          err |-> Ok]

\* GobTxDecoder.Decode(tx) on a reader holding `stream`: the exported fields
\* the stream carries are stored in tx, every other field of tx (the
\* unexported hash and firstSeen among them) is left as it is.
GobTxDecode(tx, stream) ==
    IF GobError(stream, {"Data", "From", "Signature"}) # Ok
      THEN [tx |-> tx, err |-> GobError(stream, {"Data", "From", "Signature"})]
    ELSE [tx |-> [tx EXCEPT !.Data = GobField(stream, "Data", @),
                            !.From = GobField(stream, "From", @),
                            !.Signature = GobField(stream, "Signature", @)],
          err |-> Ok]

\* The transactions that are written: signed by one of two senders, signed
\* and given another sender's key, or unsigned; hashed or not; stamped with
\* a first-seen time or not.
WireTxs ==
    LET signed(d) == { TxSign(NewTransaction(d), "k1"),
                       TxSign(NewTransaction(d), "k2"),
                       [TxSign(NewTransaction(d), "k1") EXCEPT !.From = PublicKey("k2")],
                       NewTransaction(d) }
        built == UNION { signed(d) : d \in TxData }
    IN  { SetFirstSeen(tx, t) : tx \in built \cup { TxHashed(x) : x \in built },
                                t \in 0..MaxSeen }

\* tx.Encode(NewGobTxEncoder(buf)) on the transaction in hand and an empty
\* buffer.
TxnEncode ==
    /\ codecLog.op = "none"
    /\ buf' = buf \o GobTxEncode(enc)
    /\ codecLog' = CodecLogged("Tx.Encode", Ok)
    /\ UNCHANGED <<enc, dec, ledgerVars, txVars, blockVars, poolVars, netVars>>

\* txDecoded.Decode(NewGobTxDecoder(buf)) into a fresh Transaction: the
\* decoder reads the buffer to its end.
TxnDecode ==
    /\ codecLog.op \in {"none", "Tx.Encode"}
    /\ LET r == GobTxDecode(dec, buf)
       IN  /\ dec' = r.tx
           /\ codecLog' = CodecLogged("Tx.Decode", r.err)
    /\ buf' = <<>>
    /\ UNCHANGED <<enc, ledgerVars, txVars, blockVars, poolVars, netVars>>

\* A transaction to write, an empty bytes.Buffer and a new(Transaction).
InitTxCodec ==
    /\ enc \in WireTxs
    /\ buf = <<>>
    /\ dec = NewTransaction([head |-> <<>>, tail |-> <<>>])
    /\ codecLog = NoCodecLog
    /\ NoLedger
    /\ NoTxInHand
    /\ NoBlockInHand
    /\ NoPool
    /\ NoNet

NextTxCodec ==
    \/ TxnEncode
    \/ TxnDecode

\* One caller writing a transaction and reading it back.
SpecTxCodec == InitTxCodec /\ [][NextTxCodec]_vars

\* The transports of TestSendMessage (A and B connected to each other) and of
\* TestBroadcast (A connected to B and C).
Topologies ==
    { [a \in Addrs |-> IF a = "A" THEN {"B"} ELSE IF a = "B" THEN {"A"} ELSE {}],
      [a \in Addrs |-> IF a = "A" THEN {"B", "C"} ELSE {}] }

\* Connected transports without Servers.
InitTransport ==
    /\ peers \in Topologies
    /\ consumeCh = [a \in Addrs |-> <<>>]
    /\ outbox = {}
    /\ memPool = [a \in Addrs |-> NewTxPool]
    /\ running = [a \in Addrs |-> FALSE]
    /\ clock = 1
    /\ netLog = NoNetLog
    /\ NoLedger
    /\ NoTxInHand
    /\ NoBlockInHand
    /\ NoPool
    /\ NoCodec

NextTransport ==
    \/ TrSendMessage
    \/ TrBroadcast
    \/ BroadcastSend
    \/ BroadcastReturn
    \/ TrConsume

\* Clients sending, broadcasting and consuming on local transports.
SpecTransport == InitTransport /\ [][NextTransport]_vars

\* ------------------------------------------------ Servers on transports
\* MessageTypeTxn MessageType = 0x1
MessageTypeTxn == 1

\* MessageTypeBlock, the next line of the same const block: without iota it
\* repeats the expression of the line before.
MessageTypeBlock == 1

\* NewMessage(t, data)
NewMessage(t, data) == [Header |-> t, Data |-> data]

\* msg.Bytes(): the gob stream of the Message; gob leaves out a zero Header
\* and an empty Data.
MessageBytes(msg) ==
    <<"gob", "Message">>
      \o (IF msg.Header = 0 THEN <<>> ELSE << <<"Header", msg.Header>> >>)
      \o (IF msg.Data = <<>> THEN <<>> ELSE << <<"Data", msg.Data>> >>)

\* GobBlockEncoder.Encode(b): the gob stream of the Block.
GobBlockEncode(b) ==
    <<"gob", "Block", <<"Header", b.Header>>>>
      \o (IF b.Transactions = <<>> THEN <<>>
          ELSE << <<"Transactions", b.Transactions>> >>)
      \o (IF b.Validator = NoKey THEN <<>> ELSE << <<"Validator", b.Validator>> >>)
      \o (IF b.Signature = NilSignature THEN <<>>
          ELSE << <<"Signature", b.Signature>> >>)

\* new(core.Transaction)
FreshTx == NewTransaction([head |-> <<>>, tail |-> <<>>])

\* What DefaultRPCDecodeFunc returns with an error: a nil *DecodeMessage.
NilMessage(err) ==
    [nil |-> TRUE, msg |-> [From |-> "", Data |-> FreshTx], err |-> err]

\* DefaultRPCDecodeFunc(rpc): the message, whether it is nil, and the error.
DefaultRPCDecodeFunc(rpc) ==
    LET header == GobField(rpc.Payload, "Header", 0)
        data == GobField(rpc.Payload, "Data", <<>>)
        r == GobTxDecode(FreshTx, data)
    IN  IF GobError(rpc.Payload, {"Header", "Data"}) # Ok
          THEN NilMessage("failed to decode message")
        ELSE IF header = MessageTypeTxn
          THEN IF r.err # Ok THEN NilMessage(r.err)
               ELSE [nil |-> FALSE, msg |-> [From |-> rpc.From, Data |-> r.tx],
                     err |-> Ok]
        ELSE NilMessage("invalid message header")

\* s.ProcessMessage(msg) at time t on the mempool m, for a msg that is not
\* nil: Data is a *core.Transaction on every path of DefaultRPCDecodeFunc.
ProcessMessage(m, msg, t) == ProcessTransaction(m, msg.Data, t)

\* The payload broadcastTransaction(tx) hands to s.broadcast.
TxnPayload(tx) == MessageBytes(NewMessage(MessageTypeTxn, GobTxEncode(tx)))

\* The transactions clients send: one payload signed by a sender that has
\* stamped it with its own first-seen, the same payload signed by another
\* sender, and a second payload that was never signed.
NetTxs ==
    { SetFirstSeen(TxSign(NewTransaction(DataA), "k1"), 99),
      TxSign(NewTransaction(DataA), "k2"),
      NewTransaction(DataB) }

\* A signed block with one transaction, as a producer would send it.
NetBlock ==
    BlockSign(NewBlock([NoHeader EXCEPT !.Version = 1, !.Height = 1], <<GoodTx>>),
              "k1")

\* The payloads clients send: the transactions as MessageTypeTxn messages,
\* a block as a MessageTypeBlock message, a transaction under a header that
\* is no MessageType, and bytes that are no gob stream.
NetPayloads ==
    { TxnPayload(tx) : tx \in NetTxs }
      \cup { MessageBytes(NewMessage(MessageTypeBlock, GobBlockEncode(NetBlock))),
             MessageBytes(NewMessage(3, GobTxEncode(GoodTx))),
             <<"junk">> }

\* The SetFirstSeen calls of all Servers together.
MaxStamps == 6

\* The messages clients send to the Servers.
MaxInjected == 2

\* The addresses Servers run on; the transport at C is a client's.
ServerAddrs == {"A", "B"}

\* tr.SendMessage(to, msg.Bytes()) by a client on the transport at C, as
\* sendTransaction does on a goroutine of the Servers' process.
NetSendMessage ==
    /\ \E a \in ServerAddrs : running[a]
    /\ ClientSendMessage({"C"}, NetPayloads, MaxInjected)

\* One pass of the loop of Start on the Server at s: the RPC its transport
\* received first is decoded, an error of the decoder is logged, and the
\* message goes to ProcessMessage, which panics on a nil message: the panic
\* ends the process, and with it every Server, every goroutine and the
\* channels of the local transports; a new
\* transaction is stamped, its broadcast is started on a goroutine of its
\* own and it is added to the mempool.
ServerHandle ==
    /\ clock <= MaxStamps
    /\ \E s \in Addrs :
         /\ running[s]
         /\ consumeCh[s] # <<>>
         /\ \E d \in {DefaultRPCDecodeFunc(Head(consumeCh[s]))} :
            \E res \in {IF d.nil
                          THEN [pool |-> memPool[s], err |-> "panic", added |-> FALSE]
                          ELSE ProcessMessage(memPool[s], d.msg, clock)} :
            LET rpc == Head(consumeCh[s])
                tx == d.msg.Data
                stored == SetFirstSeen(TxHashed(tx), clock)
            IN  /\ consumeCh' = IF d.nil THEN [a \in Addrs |-> <<>>]
                                 ELSE [consumeCh EXCEPT ![s] = Tail(@)]
                /\ running' = IF d.nil THEN [a \in Addrs |-> FALSE] ELSE running
                /\ memPool' = [memPool EXCEPT ![s] = res.pool]
                /\ clock' = IF res.added THEN clock + 1 ELSE clock
                /\ outbox' = IF d.nil THEN {}
                             ELSE IF res.added
                               THEN outbox \cup {[from |-> s, payload |-> TxnPayload(stored),
                                                  todo |-> peers[s]]}
                               ELSE outbox
                /\ netLog' = [netLog EXCEPT
                       !.op = "Handle", !.from = rpc.From, !.to = s,
                       !.payload = rpc.Payload, !.err = d.err, !.tx = tx,
                       !.perr = res.err, !.added = res.added, !.at = clock,
                       !.pre = memPool[s], !.nil = d.nil,
                       !.casts = IF res.added
                                   THEN @ (+) SetToBag({[server |-> s, hash |-> TxHasherHash(tx)]})
                                   ELSE @]
    /\ UNCHANGED peers
    /\ UNCHANGED <<ledgerVars, txVars, blockVars, poolVars, codecVars>>

\* Servers started on transports that are connected to each other, and a
\* client's transport connected to both, as main.go connects trLocal and
\* trRemote.
InitNet ==
    /\ peers = [a \in Addrs |-> IF a \in ServerAddrs THEN ServerAddrs \ {a}
                                 ELSE ServerAddrs]
    /\ consumeCh = [a \in Addrs |-> <<>>]
    /\ outbox = {}
    /\ memPool = [a \in Addrs |-> NewTxPool]
    /\ running = [a \in Addrs |-> a \in ServerAddrs]
    /\ clock = 1
    /\ netLog = NoNetLog
    /\ NoLedger
    /\ NoTxInHand
    /\ NoBlockInHand
    /\ NoPool
    /\ NoCodec

NextNet ==
    \/ NetSendMessage
    \/ ServerHandle
    \/ BroadcastSend
    \/ BroadcastReturn

\* Servers that receive what clients send and gossip it to each other.
SpecNet == InitNet /\ [][NextNet]_vars

\* A step of a Server's Start loop or of a broadcast goroutine.
Gossip == ServerHandle \/ BroadcastSend \/ BroadcastReturn

\* The same with the Go scheduler running the Start loops and broadcast
\* goroutines while one of them can take a step.
SpecNetFair == SpecNet /\ WF_vars(Gossip)

InitWith(stores, gs) ==
    /\ \E g \in GenesisHeaders : \E mode \in {"unsigned", "signed"} :
         headers = NewBlockchain(Seal(NewBlock(g, <<>>), mode))
    /\ validator = "BlockValidator"
    /\ store \in stores
    /\ callers = gs
    /\ call = [p \in Goroutines |-> Idle]
    /\ growth = 0
    /\ NoTxInHand
    /\ NoBlockInHand
    /\ NoPool
    /\ NoNet
    /\ NoCodec

\* One caller, the chain as NewBlockchain builds it.
Init == InitWith({"MemoryStorage"}, {1})

\* One caller, any Storage implementation.
InitPlug == InitWith({"MemoryStorage", "FailingStorage"}, {1})

\* Two goroutines calling concurrently.
InitConc == InitWith({"MemoryStorage"}, {1, 2})

Next ==
    \/ \E p \in callers : AddBlockCall(p)
    \/ \E p \in callers : ValidateHasBlock(p)
    \/ \E p \in callers : ValidateHeight(p)
    \/ \E p \in callers : GetHeaderBound(p)
    \/ \E p \in callers : GetHeaderRead(p)
    \/ \E p \in callers : AddBlockAppend(p)
    \/ \E p \in callers : AddBlockPut(p)
    \/ \E p \in callers \cap Clients : GetHeaderCall(p)
    \/ \E p \in callers \cap Clients : HeightCall(p)
    \/ \E p \in callers \cap Clients : HasBlockCall(p)

NextPlug == Next \/ \E p \in callers \cap Clients : SetValidator(p)

Spec == Init /\ [][Next]_vars

SpecPlug == InitPlug /\ [][NextPlug]_vars

SpecConc == InitConc /\ [][Next]_vars

\* ------------------------------------------- headers shared with callers
\* The place in bc.headers of the *Header the caller's last call left it
\* with: the Header of the block AddBlock appended (append stores b.Header,
\* the pointer), or the element GetHeader returned; 0 if there is none.
HeldHeader(c) ==
    IF c.pc # "done" THEN 0
    ELSE IF c.op = "AddBlock" /\ c.verr = Ok THEN Len(c.pre) + 1
    ELSE IF c.op = "GetHeader" /\ c.err = Ok THEN c.h + 1
    ELSE 0

\* b.Height = h, or header.Height = h, by a caller on the *Header it holds:
\* the write is to the Header the ledger's list points to.
WriteHeader(p) ==
    /\ HeldHeader(call[p]) \in DOMAIN headers
    /\ \E h \in 0..MaxHeight :
         /\ h # headers[HeldHeader(call[p])].Height
         /\ headers' = [headers EXCEPT ![HeldHeader(call[p])].Height = h]
         /\ call' = [call EXCEPT ![p] =
                [Idle EXCEPT !.op = "WriteHeader", !.h = HeldHeader(call[p]) - 1,
                             !.pre = headers, !.pc = "done"]]
    /\ UNCHANGED <<validator, store, callers, growth, txVars, blockVars, poolVars, codecVars, netVars>>

NextShared == Next \/ \E p \in callers : WriteHeader(p)

\* One caller that also writes to the headers it holds pointers to.
SpecShared == Init /\ [][NextShared]_vars

\* A transaction as NewTransaction or a struct literal builds it.
InitTx ==
    /\ \E d \in TxData : txn = NewTransaction(d)
    /\ txnLog = NoTxnLog
    /\ NoLedger
    /\ NoBlockInHand
    /\ NoPool
    /\ NoNet
    /\ NoCodec

NextTx ==
    \/ TxnSign
    \/ TxnHash
    \/ TxnSetFrom
    \/ TxnSetData
    \/ TxnVerify

\* One caller working on one transaction.
SpecTx == InitTx /\ [][NextTx]_vars

\* A block built as randomBlock builds it, before it is signed.
InitBlock ==
    /\ \E txx \in {<<>>, <<GoodTx>>} :
         blk = NewBlock([NoHeader EXCEPT !.Version = 1, !.Timestamp = 1], txx)
    /\ blkLog = NoBlkLog
    /\ NoLedger
    /\ NoTxInHand
    /\ NoPool
    /\ NoNet
    /\ NoCodec

NextBlock ==
    \/ BlkAddTransaction
    \/ BlkDropTransaction
    \/ BlkReplaceTransaction
    \/ BlkCommit
    \/ BlkSign
    \/ BlkSetValidator
    \/ BlkSetHeight
    \/ BlkVerify

\* One caller working on one block.
SpecBlock == InitBlock /\ [][NextBlock]_vars

NextBlockHash ==
    \/ BlkHash
    \/ BlkAddTransaction
    \/ BlkSign
    \/ BlkSetValidator
    \/ BlkSetHeight

\* One caller hashing a block while it builds, signs and alters it.
SpecBlockHash == InitBlock /\ [][NextBlockHash]_vars

\* An empty pool.
InitPool ==
    NoPool /\ NoLedger /\ NoTxInHand /\ NoBlockInHand /\ NoCodec /\ NoNet

NextPool ==
    \/ TxPoolAdd
    \/ TxPoolHas
    \/ TxPoolLen
    \/ TxPoolTransactions
    \/ TxPoolFlush

\* One caller working on one pool.
SpecPool == InitPool /\ [][NextPool]_vars

NextServer ==
    \/ ServerProcessTransaction
    \/ TxPoolHas
    \/ TxPoolLen
    \/ TxPoolTransactions

\* A Server with an empty mempool, processing the transactions it receives.
SpecServer == InitPool /\ [][NextServer]_vars

NextPoolConc ==
    \/ \E p \in Goroutines : PoolEnter(p)
    \/ \E p \in Goroutines : PoolLeave(p)
    \/ \E p \in Goroutines : PoolFault(p)

\* Two goroutines calling into one pool.
SpecPoolConc == InitPool /\ [][NextPoolConc]_vars

\* ------------------------------------------------------------- properties
\* Goroutine p's last call was AddBlock and it has returned.
AddBlockDone(p) == call[p].op = "AddBlock" /\ call[p].pc = "done"

\* AddBlockDone(p), and the default BlockValidator judged the block.
DefaultDone(p) == AddBlockDone(p) /\ call[p].v = "BlockValidator"

\* The ledger as a reader sees it is the same for the header lists hs and gs.
SameLedger(hs, gs) ==
    /\ hs = gs
    /\ Height(hs) = Height(gs)
    /\ \A height \in 0..(MaxHeight + 2) : HasBlock(hs, height) = HasBlock(gs, height)

\* The tip of the header list hs.
Tip(hs) == hs[Len(hs)]

\* C1: when the validator rejects the candidate, AddBlock has returned the
\* validator's error and the ledger is as it was before the call.
C1_RejectedLeavesLedger ==
    \A p \in callers :
        (call[p].op = "AddBlock" /\ call[p].verr # Ok) =>
            /\ call[p].pc = "done"
            /\ call[p].err = call[p].verr
            /\ SameLedger(headers, call[p].pre)

C1_Witness ==
    \E p \in callers :
        /\ AddBlockDone(p)
        /\ call[p].verr = "PrevHashMismatch"
        /\ Len(call[p].pre) = 2

C3_WritersExclusive ==
    /\ \A p, q \in callers :
         (/\ p # q
          /\ call[p].op = "AddBlock" /\ call[p].pc \in {"Put", "done"}
          /\ call[q].op = "AddBlock" /\ call[q].pc \in {"Put", "done"}
          /\ call[p].verr = Ok /\ call[p].err = Ok
          /\ call[q].verr = Ok /\ call[q].err = Ok)
         => call[p].b.Header.Height # call[q].b.Header.Height
    /\ \A i, j \in 2..Len(headers) :
         i # j => headers[i].Height # headers[j].Height

\* C4: every header at index N >= 1 of the header list has Height N and the
\* hash of the header at index N-1 as its PrevHash (the list is 1-based here).
C4_ChainLinkage ==
    \A n \in 2..Len(headers) :
        /\ headers[n].Height = n - 1
        /\ headers[n].PrevHash = BlockHasherHash(headers[n - 1])

C4_Witness == Len(headers) = MaxHeight + 1

\* C5: every step of every operation keeps the header list as a prefix of the
\* new one, and Height() does not decrease.
C5_AppendOnly ==
    [][/\ Len(headers') >= Len(headers)
       /\ \A i \in 1..Len(headers) : headers'[i] = headers[i]
       /\ Height(headers') >= Height(headers)]_vars

C5_Witness ==
    /\ Len(headers) = MaxHeight + 1
    /\ call[1].op = "SetValidator" /\ call[1].pc = "done"
    /\ headers[2].Height # 1

\* C6: while every AddBlock call so far submitted a well-formed block for the
\* next height, linked to the tip, each call has returned nil, and after k
\* such calls Height() is k and the header list has k + 1 entries.
C6_ChainGrowth ==
    \A p \in callers :
        (growth >= 0 /\ call[p].pc \in {"idle", "done"}) =>
            /\ Height(headers) = growth
            /\ Len(headers) = growth + 1
            /\ AddBlockDone(p) =>
                 /\ call[p].err = Ok
                 /\ headers = Append(call[p].pre, call[p].b.Header)

C6_Witness ==
    /\ growth = MaxHeight
    /\ AddBlockDone(1)
    /\ Height(headers) = MaxHeight

\* C7: AddBlock of a candidate whose Height is at most Height() fails with
\* DuplicateHeight and leaves the ledger as it was.
C7_DuplicateHeight ==
    \A p \in callers :
        (DefaultDone(p) /\ call[p].b.Header.Height <= Height(call[p].pre)) =>
            /\ call[p].err = "DuplicateHeight"
            /\ SameLedger(headers, call[p].pre)

\* A correctly signed block with a genuine PrevHash at height 0 of a chain
\* that has grown.
C7_Witness ==
    \E p \in callers :
        /\ DefaultDone(p)
        /\ call[p].b.Header.Height = 0
        /\ Len(call[p].pre) > 1
        /\ BlockVerify(call[p].b) = Ok
        /\ call[p].err = "DuplicateHeight"

\* C8: AddBlock of a candidate whose Height is greater than Height() + 1 fails
\* with HeightMismatch and the candidate is not appended.
C8_HeightContinuity ==
    \A p \in callers :
        (DefaultDone(p) /\ call[p].b.Header.Height > Height(call[p].pre) + 1) =>
            /\ call[p].err = "HeightMismatch"
            /\ SameLedger(headers, call[p].pre)

C8_Witness ==
    \E p \in callers :
        /\ DefaultDone(p)
        /\ call[p].b.Header.Height = Height(call[p].pre) + 2
        /\ BlockVerify(call[p].b) = Ok
        /\ call[p].err = "HeightMismatch"

\* C9: AddBlock of a candidate at height Height() + 1 whose PrevHash is not the
\* hash of the tip fails with PrevHashMismatch and is not appended.
C9_LinkageRejection ==
    \A p \in callers :
        (/\ DefaultDone(p)
         /\ call[p].b.Header.Height = Height(call[p].pre) + 1
         /\ call[p].b.Header.PrevHash # BlockHasherHash(Tip(call[p].pre))) =>
            /\ call[p].err = "PrevHashMismatch"
            /\ SameLedger(headers, call[p].pre)

C9_Witness ==
    \E p \in callers :
        /\ DefaultDone(p)
        /\ call[p].b.Header.Height = Height(call[p].pre) + 1
        /\ call[p].b.Header.PrevHash # BlockHasherHash(Tip(call[p].pre))
        /\ BlockVerify(call[p].b) = Ok
        /\ Len(call[p].pre) > 1
        /\ call[p].err = "PrevHashMismatch"

\* The first rule, in the order duplicate height, height continuity, chain
\* linkage, Block.Verify, that block b breaks on the header list hs.
FirstBrokenRule(hs, b) ==
    IF b.Header.Height <= Len(hs) - 1 THEN "DuplicateHeight"
    ELSE IF b.Header.Height # Len(hs) THEN "HeightMismatch"
    ELSE IF b.Header.Height - 1 \notin 0..(Len(hs) - 1) THEN "HeightOutOfRange"
    ELSE IF b.Header.PrevHash # BlockHasherHash(hs[b.Header.Height])
      THEN "PrevHashMismatch"
    ELSE BlockVerify(b)

\* C10: the error AddBlock returns under the default validator is that of the
\* first rule the candidate breaks, in the fixed order.
C10_FirstFailureWins ==
    \A p \in callers :
        DefaultDone(p) => call[p].err = FirstBrokenRule(call[p].pre, call[p].b)

\* A candidate with a wrong PrevHash and no signature, rejected for its
\* PrevHash.
C10_Witness ==
    \E p \in callers :
        /\ DefaultDone(p)
        /\ call[p].b.Header.Height = Height(call[p].pre) + 1
        /\ call[p].b.Header.PrevHash # BlockHasherHash(Tip(call[p].pre))
        /\ BlockVerify(call[p].b) = "NoSignature"
        /\ call[p].err = "PrevHashMismatch"

\* The header signature of block b is present and verifies.
HeaderSigned(b) ==
    /\ b.Signature # NilSignature
    /\ SigVerify(b.Signature, b.Validator, HeaderBytes(b.Header))

\* The header of block b commits to its batch.
Committed(b) == CalculateDataHash(b.Transactions) = b.Header.DataHash

\* C11: Block.Verify returns the first failure in the order NoSignature,
\* InvalidSignature, ContentMismatch, then the error of the transaction of
\* lowest index that fails; a block with a wrong commitment and an invalid
\* transaction fails with ContentMismatch.
C11_VerifyOrder ==
    blkLog.op = "Verify" =>
        blkLog.err =
            IF blk.Signature = NilSignature THEN "NoSignature"
            ELSE IF ~HeaderSigned(blk) THEN "InvalidSignature"
            ELSE IF ~Committed(blk) THEN "ContentMismatch"
            ELSE FirstTxError(blk.Transactions, 1)

\* C12: a block whose DataHash differs from the hash of its batch, and whose
\* header signature is valid, fails Verify() with ContentMismatch.
C12_ContentBinding ==
    (blkLog.op = "Verify" /\ HeaderSigned(blk) /\ ~Committed(blk)) =>
        blkLog.err = "ContentMismatch"

\* C13: a block Sign has just succeeded on commits to its batch, and Verify()
\* directly after Sign does not fail with ContentMismatch.
C13_SignNeedsCommitment ==
    /\ blkLog.op = "Sign" => Committed(blk)
    /\ (blkLog.op = "Verify" /\ blk.Signature # NilSignature
          /\ blkLog.since = <<>>) => blkLog.err # "ContentMismatch"

\* C14: an unsigned block fails Verify() with NoSignature; a block that
\* commits to a batch of validly signed transactions verifies directly after
\* Sign, and fails Verify() once its Validator was replaced by another key or
\* its Height was changed.
C14_SignThenVerify ==
    /\ (blkLog.op = "Verify" /\ blk.Signature = NilSignature) =>
          blkLog.err = "NoSignature"
    /\ (/\ blkLog.op = "Verify" /\ blk.Signature # NilSignature
        /\ Committed(blk) /\ FirstTxError(blk.Transactions, 1) = Ok) =>
          /\ blkLog.since = <<>> => blkLog.err = Ok
          /\ blkLog.since \in {<<"SetValidator">>, <<"SetHeight">>} =>
                blkLog.err # Ok

\* C15: Transaction.Verify() fails with NoSignature on an unsigned
\* transaction, succeeds on a transaction as Sign left it, and fails with
\* InvalidSignature once From is another key than the signing one or Data is
\* not the signed Data.
C15_TxSignatureSound ==
    txnLog.op = "Verify" =>
        IF txn.Signature = NilSignature THEN txnLog.err = "TxNoSignature"
        ELSE IF txn.From = PublicKey(txnLog.key) /\ txn.Data = txnLog.data
          THEN txnLog.err = Ok
        ELSE txnLog.err = "TxInvalidSignature"

\* The last call was Add of a transaction whose hash the pool held.
AddedPresent ==
    poolLog.op = "Add" /\ MapHas(poolLog.pre, TxHasherHash(poolLog.tx))

\* The last call was Add of a transaction whose hash the pool did not hold.
AddedAbsent ==
    poolLog.op = "Add" /\ ~MapHas(poolLog.pre, TxHasherHash(poolLog.tx))

\* C16: Add of a transaction whose hash is present returns nil and leaves
\* Len() as it was, and the pool never holds two entries of one hash.
C16_AddIdempotent ==
    /\ \A e, f \in pool : e.hash = f.hash => e = f
    /\ AddedPresent =>
         poolLog.err = Ok /\ MapLen(pool) = MapLen(poolLog.pre)

C16_Witness ==
    /\ AddedPresent
    /\ [hash |-> TxHasherHash(poolLog.tx), tx |-> poolLog.tx] \notin poolLog.pre
    /\ MapLen(pool) = 2

\* C17: Add of a transaction whose hash is present leaves every entry of
\* the pool as it was: the transaction stored under the hash is still the
\* one stored before the call.
C17_AddPresentKeepsEntry == AddedPresent => pool = poolLog.pre

\* C18: Add of a transaction whose hash is absent stores it with its
\* first-seen set to the pool's time at the call.
C18_FirstSeenAtInsertion ==
    AddedAbsent =>
        \E e \in pool :
            /\ e.hash = TxHasherHash(poolLog.tx)
            /\ e.tx.firstSeen = poolLog.at

\* The first-seen values of the sequence txx increase strictly.
Increasing(txx) ==
    \A i, j \in 1..Len(txx) : i < j => txx[i].firstSeen < txx[j].firstSeen

\* C19: Transactions() returns the transactions of the pool, each once and
\* Len() of them, in ascending order of first-seen; transactions of different
\* hashes added with strictly increasing first-seen come back in the order
\* they were added in.
C19_TransactionsSorted ==
    poolLog.op = "Transactions" =>
        LET out == poolLog.txx IN
        /\ Len(out) = MapLen(pool)
        /\ {out[i] : i \in 1..Len(out)} = {e.tx : e \in pool}
        /\ \A i, j \in 1..Len(out) :
             i < j => out[i].firstSeen <= out[j].firstSeen
        /\ (Increasing(added) /\ MapLen(pool) = Len(added)) => out = added

C19_Witness ==
    /\ poolLog.op = "Transactions"
    /\ Len(poolLog.txx) = MaxClock
    /\ Increasing(added)
    /\ poolLog.txx = added

\* C20: two calls of Transactions() with no call between them return the
\* same sequence.
C20_TransactionsDeterministic ==
    (poolLog.op = "Transactions" /\ poolLog.prev = "Transactions") =>
        poolLog.txx = poolLog.prevTxx

\* C21: right after Flush the pool is empty, whatever it held: Len() is 0,
\* Has is false for every hash, Transactions() is empty, and Add of a
\* transaction that was flushed puts it into the pool again.
C21_FlushClears ==
    /\ poolLog.op = "Flush" =>
         /\ MapLen(pool) = 0
         /\ \A h \in PoolHashes : ~MapHas(pool, h)
         /\ NewTxMapSorter(pool) = {<<>>}
    /\ poolLog.prev = "Flush" =>
         /\ poolLog.op = "Len" => poolLog.len = 0
         /\ poolLog.op = "Has" => ~poolLog.has
         /\ poolLog.op = "Transactions" => poolLog.txx = <<>>
         /\ poolLog.op = "Add" =>
              /\ poolLog.err = Ok
              /\ pool = {[hash |-> TxHasherHash(poolLog.tx), tx |-> poolLog.tx]}

C21_Witness ==
    /\ poolLog.op = "Add" /\ poolLog.prev = "Flush"
    /\ MapLen(poolLog.flushed) = 2
    /\ \E e \in poolLog.flushed : e.tx = poolLog.tx

\* C22: every call other than Flush keeps every hash of the pool in the
\* pool and does not decrease Len(); Has reports the hashes the pool holds.
C22_OnlyFlushRemoves ==
    [][/\ TxPoolFlush \/ (/\ \A e \in pool : MapHas(pool', e.hash)
                          /\ MapLen(pool') >= MapLen(pool))
       /\ poolLog'.op = "Has" =>
            poolLog'.has = MapHas(pool, poolLog'.hash)]_vars

C22_Witness ==
    /\ poolLog.op = "Has" /\ poolLog.has
    /\ poolLog.prev = "Transactions"
    /\ MapLen(pool) = MaxClock

\* C23: no two goroutines are inside a map access of Add, Flush or
\* Transactions at the same time, no call ends in a runtime fault, and
\* after two Adds of one transaction the pool holds one entry for it.
C23_PoolSerialised ==
    /\ \A p, q \in Goroutines :
         (p # q /\ poolCall[p].pc = "inMap") => poolCall[q].pc # "inMap"
    /\ \A p \in Goroutines : poolCall[p].pc # "fault"
    /\ \A p, q \in Goroutines :
         (/\ p # q
          /\ poolCall[p].pc = "idle" /\ poolCall[p].op = "Add"
          /\ poolCall[q].pc = "idle" /\ poolCall[q].op = "Add"
          /\ poolCall[p].tx = poolCall[q].tx) =>
            Cardinality({e \in pool : e.hash = TxHasherHash(poolCall[p].tx)}) = 1

\* C24: every transaction in a Server's mempool passes Verify(), and
\* processing a transaction that fails Verify() leaves the mempool and its
\* Len() as they were.
C24_VerifyBeforeInsert ==
    /\ \A e \in pool : TxVerify(e.tx) = Ok
    /\ (poolLog.op = "Process" /\ TxVerify(poolLog.tx) # Ok) =>
          /\ pool = poolLog.pre
          /\ MapLen(pool) = MapLen(poolLog.pre)

C24_Witness ==
    /\ poolLog.op = "Process"
    /\ TxVerify(poolLog.tx) = "TxInvalidSignature"
    /\ ~MapHas(poolLog.pre, TxHasherHash(poolLog.tx))
    /\ poolLog.err = "TxInvalidSignature"
    /\ MapLen(pool) = 2

\* C25: GetHeader(h) succeeds exactly when HasBlock(h), that is h <=
\* Height(): it returns the header at index h, which for h >= 1 is the
\* header of the block AddBlock accepted for height h; otherwise it fails
\* with HeightOutOfRange and returns no header.
C25_GetHeader ==
    \A p \in callers :
        (call[p].op = "GetHeader" /\ call[p].pc = "done") =>
            IF call[p].h <= Len(headers) - 1
              THEN /\ HasBlock(headers, call[p].h)
                   /\ call[p].err = Ok
                   /\ call[p].out = headers[call[p].h + 1]
                   /\ call[p].h >= 1 => call[p].out.Height = call[p].h
              ELSE /\ ~HasBlock(headers, call[p].h)
                   /\ call[p].err = "HeightOutOfRange"
                   /\ call[p].out = NoHeader

C25_Witness ==
    /\ call[1].op = "GetHeader" /\ call[1].pc = "done"
    /\ call[1].h = MaxHeight
    /\ call[1].err = Ok
    /\ call[1].out.Height = MaxHeight

\* No call was made on the Blockchain since NewBlockchain returned.
JustBuilt == \A p \in Goroutines : call[p].op = "none"

\* C26: the chain NewBlockchain(g) returns has the default validator,
\* exactly one header, that of g whatever g is, Height() 0 and HasBlock(0);
\* the genesis header stays the first header.
C26_Genesis ==
    /\ Len(headers) >= 1 /\ headers[1] \in GenesisHeaders
    /\ JustBuilt =>
         /\ Len(headers) = 1
         /\ Height(headers) = 0
         /\ HasBlock(headers, 0)
         /\ validator = "BlockValidator"

C26_Witness ==
    /\ JustBuilt
    /\ headers[1].Height = 1
    /\ Height(headers) = 0

\* C27: every call of Hash on a transaction returns the value the first call
\* returned and cached, and that value is the hash of Data alone.
C27_TxHashCached ==
    txnLog.op = "Hash" =>
        /\ txnLog.hash = txnLog.first
        /\ txnLog.hash = txn.hash
        /\ txnLog.hash = Sha256(txn.Data)

\* C28 as stated: every Hash call returns a non-zero value that is the hash
\* of the block's header as it is at the call, so that blocks with equal
\* headers hash alike.
C28_BlockHashOfHeader ==
    blkLog.op = "Hash" =>
        /\ blkLog.hash # ZeroHash
        /\ blkLog.hash = BlockHasherHash(blk.Header)

\* C28, amended: every Hash call returns the cached value, which is never
\* zero and is the hash of the header as it was at the block's first Hash
\* call, whatever was written to the header, the transactions, the validator
\* key or the signature since.
C28_BlockHashCached ==
    /\ blkLog.op = "Hash" =>
         /\ blkLog.hash # ZeroHash
         /\ blkLog.hash = blk.hash
    /\ blk.hash # ZeroHash => blk.hash = BlockHasherHash(blkLog.hashed)

C28_Witness ==
    /\ blkLog.op = "Hash"
    /\ blk.Header # blkLog.hashed
    /\ blk.Signature # NilSignature
    /\ Len(blk.Transactions) = MaxTxs
    /\ blkLog.hash = BlockHasherHash(blkLog.hashed)

\* C29: a header written by Header.EncodeBinary and read back by
\* Header.DecodeBinary from the written bytes is equal to the written one in
\* every field, and the read reports no error.
C29_HeaderRoundTrip ==
    (codecLog.op = "Header.DecodeBinary" /\ codecLog.prev = "Header.EncodeBinary") =>
        /\ codecLog.err = Ok
        /\ \A name \in DOMAIN HeaderSizes : dec.Header[name] = enc.Header[name]

C29_Witness ==
    /\ codecLog.op = "Header.DecodeBinary"
    /\ codecLog.prev = "Header.EncodeBinary"
    /\ enc.Header.Version = 1
    /\ enc.Header.PrevHash \notin {ZeroHeader.PrevHash}
    /\ enc.Header.Timestamp = 2147483647
    /\ enc.Header.Height = 10
    /\ enc.Header.Nonce = 989394
    /\ dec.Header = enc.Header

\* C30: a block written by Block.EncodeBinary and read back by
\* Block.DecodeBinary into a fresh Block has the header and the transactions
\* of the written one, whether or not it has transactions.
C30_BlockRoundTrip ==
    (codecLog.op = "Block.DecodeBinary" /\ codecLog.prev = "Block.EncodeBinary") =>
        /\ codecLog.err = Ok
        /\ dec.Header = enc.Header
        /\ dec.Transactions = enc.Transactions

Reached(b, x) ==
    CopiesIn(x, netLog.got[b])
        + Cardinality({i \in DOMAIN consumeCh[b] : consumeCh[b][i] = x})

\* The passes of Broadcast calls still in progress that have sent x to b.
InProgress(b, x) ==
    Cardinality({o \in outbox : /\ o.from = x.From /\ o.payload = x.Payload
                                /\ b \in peers[o.from] \ o.todo})

\* C32: what has reached a transport's Consume() channel is, for every sender
\* and payload, one RPC with that sender as From and that payload for each
\* SendMessage to it from a connected transport and each Broadcast by a
\* transport connected to it, and nothing else; SendMessage returns an error
\* exactly when the addressee is not among the sender's peers.
C32_LocalDelivery ==
    /\ \A b \in Addrs : \A a \in Addrs : \A p \in RawPayloads :
         LET x == [From |-> a, Payload |-> p]
         IN  Reached(b, x) = CopiesIn(x, netLog.want[b]) + InProgress(b, x)
    /\ \A b \in Addrs :
         \A x \in BagToSet(netLog.got[b]) \cup {consumeCh[b][i] : i \in DOMAIN consumeCh[b]} :
             x.From \in Addrs /\ x.Payload \in RawPayloads
    /\ netLog.op = "SendMessage" =>
         (netLog.err = Ok <=> netLog.to \in peers[netLog.from])

C32_Witness ==
    /\ netLog.op = "Consume"
    /\ netLog.to = "C"
    /\ netLog.from = "A"
    /\ CopiesIn([From |-> "A", Payload |-> netLog.payload], netLog.want["B"]) = 1
    /\ Reached("B", [From |-> "A", Payload |-> netLog.payload]) = 1
    /\ netLog.calls = MaxSends

\* C33: a write by a caller to a field of the header of a block it submitted,
\* or of a header GetHeader returned, leaves every header of the ledger, and
\* so its hash, as it was.
C33_AcceptedHeaderFixed ==
    \A p \in callers :
        call[p].op = "WriteHeader" =>
            /\ headers = call[p].pre
            /\ BlockHasherHash(headers[call[p].h + 1])
                 = BlockHasherHash(call[p].pre[call[p].h + 1])

\* C35: processTransaction on a transaction whose hash the mempool already
\* holds returns nil and leaves the mempool, the stored transaction and its
\* first-seen included, as it was, whoever signed the later transaction and
\* whether or not it verifies.
C35_StoredEntryKept ==
    (poolLog.op = "Process" /\ MapHas(poolLog.pre, TxHasherHash(poolLog.tx))) =>
        /\ poolLog.err = Ok
        /\ pool = poolLog.pre

C35_Witness ==
    /\ poolLog.op = "Process"
    /\ TxVerify(poolLog.tx) = Ok
    /\ \E e \in poolLog.pre :
         /\ e.hash = TxHasherHash(poolLog.tx)
         /\ e.tx.From # poolLog.tx.From
         /\ e.tx.firstSeen < poolLog.at
         /\ e \in pool

\* C34: whatever first-seen the sending side had set, the transaction a
\* Server decodes has first-seen unset, and the entry that enters the
\* Server's mempool carries the Server's own clock reading.
C34_FirstSeenFromReceiver ==
    (netLog.op = "Handle" /\ ~netLog.nil) =>
        /\ netLog.tx.firstSeen = 0
        /\ netLog.added =>
              \E e \in memPool[netLog.to] :
                 /\ e.hash = TxHasherHash(netLog.tx)
                 /\ e.tx.firstSeen = netLog.at

C34_Witness ==
    /\ netLog.op = "Handle"
    /\ netLog.from = "C"
    /\ netLog.payload = TxnPayload(SetFirstSeen(TxSign(NewTransaction(DataA), "k1"), 99))
    /\ netLog.added
    /\ netLog.at # 99
    /\ \E e \in memPool[netLog.to] : e.tx.firstSeen = netLog.at

\* No message is on its way to a Server and no broadcast is running.
Quiet == outbox = {} /\ \A a \in ServerAddrs : consumeCh[a] = <<>>

\* C36: a Server starts the broadcast of a transaction at most once, a
\* transaction whose hash its mempool holds is neither added nor broadcast
\* again, and the Servers' gossip comes to rest.
C36_GossipTerminates ==
    /\ [](\A c \in BagToSet(netLog.casts) : CopiesIn(c, netLog.casts) = 1)
    /\ []((netLog.op = "Handle" /\ MapHas(netLog.pre, TxHasherHash(netLog.tx)))
            => (~netLog.added /\ memPool[netLog.to] = netLog.pre))
    /\ <>[]Quiet

C36_Witness ==
    /\ netLog.op = "Handle"
    /\ netLog.from \in ServerAddrs
    /\ ~netLog.nil
    /\ MapHas(netLog.pre, TxHasherHash(netLog.tx))
    /\ [server |-> netLog.to, hash |-> TxHasherHash(netLog.tx)] \in BagToSet(netLog.casts)
    /\ [server |-> netLog.from, hash |-> TxHasherHash(netLog.tx)] \in BagToSet(netLog.casts)

\* C37: an RPC whose payload cannot be decoded is dropped: no nil message
\* reaches ProcessMessage, the mempool is as it was, and the Server at the
\* receiving address goes on running.
C37_UndecodableDropped ==
    (netLog.op = "Handle" /\ netLog.err # Ok) =>
        /\ netLog.perr # "panic"
        /\ running[netLog.to]
        /\ memPool[netLog.to] = netLog.pre

\* C38: a message whose header is MessageTypeBlock, or any header other
\* than MessageTypeTxn, is rejected with 'invalid message header' and
\* nothing of it is decoded as a transaction or enters the mempool.
C38_OnlyTxnDecoded ==
    (/\ netLog.op = "Handle"
     /\ GobError(netLog.payload, {"Header", "Data"}) = Ok
     /\ \/ GobField(netLog.payload, "Header", 0) = MessageTypeBlock
        \/ GobField(netLog.payload, "Header", 0) # MessageTypeTxn) =>
        /\ netLog.err = "invalid message header"
        /\ ~netLog.added

\* The Height field of the last header of the list.
TipHeight(hs) == hs[Len(hs)].Height

C40_ParentPresent ==
    \A p \in callers :
        call[p].op = "AddBlock" =>
            /\ call[p].verr # "HeightOutOfRange"
            /\ call[p].pc \in {"GetHeader", "GetHeaderRead"} =>
                  /\ call[p].b.Header.Height > 0
                  /\ call[p].h = call[p].b.Header.Height - 1
                  /\ ~OutOfRange(headers, call[p].h)
                  /\ call[p].h + 1 \in DOMAIN headers

\* A parent lookup after another goroutine's AddBlock has appended.
C40_Witness ==
    \E p \in callers :
        /\ call[p].op = "AddBlock"
        /\ call[p].pc = "GetHeaderRead"
        /\ Len(headers) > Len(call[p].pre)
====
